---------------------------- MODULE Spec2Model ----------------------------
(***************************************************************************)
(* Model of the JuggleHub tracking-and-dispatch engine                     *)
(* (engine/src/Engine.cpp and the output modules).                         *)
(*                                                                         *)
(* Two threads of control are modelled: the frame loop (Engine::run) and   *)
(* the command loop (Engine::processCommands), together with the clients   *)
(* of the ZMQ REP command socket and the caller of Engine::stop.           *)
(* A module pointer is a natural number: 0 is nullptr, p > 0 is the p-th   *)
(* instance ever constructed (modules[p]).                                  *)
(***************************************************************************)
EXTENDS Naturals, Integers, Sequences, FiniteSets, TLC

\* ------------------------------------------------------------------ bounds
\* requests the clients send during one run
MaxRequests == 2
\* clients connected to the REP socket (each has at most one request pending)
NumClients == 2
\* frames the camera delivers during one run
MaxFrames == 2

\* ------------------------------------------------------------- vocabulary
ModuleNames == {"UdpBallColorModule", "PositionToRgbModule", "Bogus"}

\* the requests a client can put on the command channel
RequestKinds ==
    {[type |-> "LOAD_MODULE", module_name |-> n] : n \in ModuleNames}
    \cup {[type |-> t, module_name |-> ""] :
            t \in {"UNLOAD_MODULE", "CONFIGURE_MODULE",
                   "SEND_COLOR_COMMAND", "UNKNOWN"}}

NoRequest == [id |-> 0, type |-> "NONE", module_name |-> ""]

\* the value of atRecv while no external command is being handled
NoSnapshot == [slot |-> 0, modules |-> <<>>, queue |-> <<>>]

\* the value of response while no external command is being handled
NoResponse == [success |-> TRUE, message |-> ""]

\* what one acquired frame holds: no ball, one green ball, one other ball
FrameContents == {"none", "green", "other"}

\* color_module_ is the first instance ever constructed
ColorModuleId == 1

VARIABLES
    running_,               \* std::atomic<bool> running_
    crashed,                \* the process died (null call, use after free,
                            \* uncaught exception)
    command_queue_,         \* std::queue<CommandRequest>: ids of commands
    command_queue_mutex_,   \* "free", "frame" or "cmd"
    active_module_,         \* std::unique_ptr<ModuleBase>: 0 or an instance
    modules,                \* every instance constructed so far
    pcF,                    \* position of the frame loop
    fptr,                   \* pointer the frame loop read from the slot
    upd,                    \* instance whose update is executing (0: none)
    frame,                  \* content of the frame being processed
    frames,                 \* number of frames acquired
    published,              \* the publisher: last frame sent, whether it was
                            \* accepted, number of send calls
    pcC,                    \* position of the command loop
    request,                \* external command being handled
    result,                 \* recv() returned a message in this iteration
    internal_command,       \* command popped from the queue (0: none)
    command_found,          \* the pop found a command in this iteration
    response,               \* CommandResponse under construction
    atRecv,                 \* slot, instances and queue when recv returned
    chan,                   \* ids of the requests sent, not yet received
    sent,                   \* number of requests sent by clients
    received,               \* number of requests received by the loop
    replies,                \* ids of the requests answered, in send order
    enqueued,               \* number of sendCommand calls that pushed
    dispatched,             \* internal dispatches: <<instance, command id>>
    datagrams,              \* number of UDP datagrams sent
    target_ball_id_,        \* PositionToRgbModule: std::string target_ball_id_
    pos_configured,         \* a target_ball_id was configured on the instance
    pos_frame_data,         \* frame_data of the update call in progress
    pos_commands,           \* commands that call handed to the callback
    pos_processed,          \* the last processCommand call on the instance:
                            \* its command and target_ball_id_ before it
    udp_call,               \* UdpBallColorModule: the call in progress
    udp_datagrams,          \* datagrams that call handed to sendto
    udp_slept,              \* milliseconds that call spent in sleep_for
    merge_pc,               \* mergeNearbyDetections: "idle", "merged", "again"
    merge_centers,          \* the centers it was called with
    merge_merged,           \* the merged centers it returned
    merge_again,            \* what it returned when called with those
    depth_op,               \* "idle", "getAveragedDepth" or "detectBalls"
    depth_frame,            \* rs2::depth_frame: millimetres at each pixel
    depth_args,             \* the other arguments of the call
    depth_result,           \* what the call returned
    colors_,                \* BallTracker: std::vector<ColorRange> colors_
    settings_file,          \* the file named by settings_file_
    set_op,                 \* the last call on the tracker: its arguments,
                            \* colors_ before it and what it returned
    set_ops,                \* number of calls made so far
    byte_tracker            \* DNNTracker: the update calls its BYTETracker
                            \* has received, in order

engineVars == <<running_, crashed, command_queue_, command_queue_mutex_,
          active_module_, modules, pcF, fptr, upd, frame, frames, published,
          pcC, request, result, internal_command, command_found, response,
          atRecv, chan, sent, received, replies, enqueued, dispatched,
          datagrams>>

\* the state of a PositionToRgbModule instance taken on its own
posVars == <<target_ball_id_, pos_configured, pos_frame_data, pos_commands,
             pos_processed>>

\* the state of a UdpBallColorModule instance taken on its own
udpVars == <<udp_call, udp_datagrams, udp_slept>>

\* the state of BallTracker::mergeNearbyDetections taken on its own
mergeVars == <<merge_pc, merge_centers, merge_merged, merge_again>>

\* the state of BallTracker::detectBalls and getAveragedDepth taken on
\* their own
depthVars == <<depth_op, depth_frame, depth_args, depth_result>>

\* the color profiles of a BallTracker and its settings file taken on their
\* own
setVars == <<colors_, settings_file, set_op, set_ops>>

\* the state of a DNNTracker taken on its own
dnnVars == <<byte_tracker>>

\* the state of the components that are modelled on their own
unitVars == <<posVars, udpVars, mergeVars, depthVars, setVars, dnnVars>>

\* everything but one component
exceptPos == <<engineVars, udpVars, mergeVars, depthVars, setVars, dnnVars>>
exceptUdp == <<engineVars, posVars, mergeVars, depthVars, setVars, dnnVars>>
exceptMerge == <<engineVars, posVars, udpVars, depthVars, setVars, dnnVars>>
exceptDepth == <<engineVars, posVars, udpVars, mergeVars, setVars, dnnVars>>
exceptDnn == <<engineVars, posVars, udpVars, mergeVars, depthVars, setVars>>
exceptSet == <<engineVars, posVars, udpVars, mergeVars, depthVars, dnnVars>>

vars == <<engineVars, unitVars>>

frameVars == <<pcF, fptr, upd, frame, frames, published>>
cmdVars   == <<pcC, request, result, internal_command, command_found,
               response, atRecv>>
chanVars  == <<chan, sent, received, replies>>

\* ------------------------------------------------------- module instances
\* a freshly constructed instance of the given variant
NewModule(kind) ==
    [kind |-> kind, alive |-> TRUE, setups |-> 0, cleanups |-> 0,
     configs |-> 0, colors |-> 0]

\* Engine::create_module: the variant to construct, "null" for nullptr
create_module(module_name) ==
    IF module_name = "UdpBallColorModule" THEN "Udp"
    ELSE IF module_name = "PositionToRgbModule" THEN "Pos"
    ELSE "null"

\* ~unique_ptr / unique_ptr::reset on pointer p: the instance is deleted
\* (ModuleBase's destructor is defaulted: it does not call cleanup)
Destroy(ms, p) ==
    IF p = 0 THEN ms ELSE [ms EXCEPT ![p].alive = FALSE]

\* ModuleBase::setup on instance p
Setup(ms, p) == [ms EXCEPT ![p].setups = @ + 1]

\* ModuleBase::cleanup on instance p
Cleanup(ms, p) == [ms EXCEPT ![p].cleanups = @ + 1]

\* datagrams UdpBallColorModule::processCommand sends for a command type
UdpProcessDatagrams(type) ==
    IF type = "SEND_COLOR_COMMAND" THEN 1 ELSE 0

\* ModuleBase::processCommand on instance p with a command of the given type
ProcessCommand(ms, p, type) ==
    IF type = "CONFIGURE_MODULE"
    THEN [ms EXCEPT ![p].configs = @ + 1]
    ELSE IF type = "SEND_COLOR_COMMAND"
    THEN [ms EXCEPT ![p].colors = @ + 1]
    ELSE ms

\* balls in a frame
Balls(f) == IF f = "none" THEN 0 ELSE 1

\* datagrams UdpBallColorModule::update sends: brightness + color per ball
UdpUpdateDatagrams(f) == 2 * Balls(f)

\* ---------------------------------------------------- PositionToRgbModule
\* One instance of the position-to-color module on its own: its constructor,
\* update and processCommand, with the frame records and commands it is
\* given drawn from bounded sets.  Lengths are in millimetres where the code
\* has metres in a double.

\* the largest number of detections in a frame record given to update
MaxBalls == 2

\* axis values of a detection's position: far out of the assumed interval,
\* around its two ends, and inside it
AxisSamples == {-2000, -501, -500, -499, -250, 0, 250, 499, 500, 501, 2000}

\* positions of the green detections: all three axes alike, or the three
\* axes apart
PosPositions ==
    {[x |-> a, y |-> a, z |-> a] : a \in AxisSamples} \cup
    {[x |-> a, y |-> 0, z |-> -a] : a \in AxisSamples}

\* the detections of a frame record: a green ball, or a ball of another color
PosBalls ==
    {[color_name |-> "green", position_3d |-> p] : p \in PosPositions} \cup
    {[color_name |-> "pink", position_3d |-> [x |-> 250, y |-> -250, z |-> 499]]}

\* frame records: up to MaxBalls detections in the order of the record
PosFrames == UNION {[1..n -> PosBalls] : n \in 0..MaxBalls}

\* the commands given to processCommand
PosRequests ==
    {[type |-> "CONFIGURE_MODULE", module_args |-> [target_ball_id |-> t]] :
        t \in {"201", "202", "255"}} \cup
    {[type |-> "CONFIGURE_MODULE", module_args |-> [brightness |-> "7"]],
     [type |-> "SEND_COLOR_COMMAND", module_args |-> [target_ball_id |-> "202"]],
     [type |-> "UNLOAD_MODULE", module_args |-> [target_ball_id |-> "202"]]}

\* static_cast<uint8_t> of a non-negative value
U8(v) == v % 256

\* std::clamp
Clamp(v, lo, hi) == IF v < lo THEN lo ELSE IF hi < v THEN hi ELSE v

\* AxisToByte without the clamp
AxisToByteUnclamped(raw) == U8(((raw + 500) * 255) \div 1000)

\* one axis to one color component: norm = raw + 0.5, clamped to [0, 1],
\* times 255.0, truncated to uint8_t
AxisToByte(raw) == U8((Clamp(raw + 500, 0, 1000) * 255) \div 1000)

\* the indices of the detections whose color_name is "green"
GreenBalls(frame_data) ==
    {i \in 1..Len(frame_data) : frame_data[i].color_name = "green"}

\* the SEND_COLOR_COMMAND update builds from a detection
ColorCommand(ball, target) ==
    [type |-> "SEND_COLOR_COMMAND", ball_id |-> target,
     r |-> AxisToByte(ball.position_3d.x),
     g |-> AxisToByte(ball.position_3d.y),
     b |-> AxisToByte(ball.position_3d.z)]

\* update building a command for every green detection
PositionToRgbModule_updateEveryMatch(frame_data, target) ==
    LET Cmds[n \in 0..Len(frame_data)] ==
          IF n = 0 THEN <<>>
          ELSE IF frame_data[n].color_name = "green"
               THEN Append(Cmds[n - 1], ColorCommand(frame_data[n], target))
               ELSE Cmds[n - 1]
    IN Cmds[Len(frame_data)]

\* PositionToRgbModule::update: the commands handed to the callback.  The
\* scan stops at the first green detection; without one update returns
PositionToRgbModule_update(frame_data, target) ==
    LET green == GreenBalls(frame_data) IN
    IF green = {} THEN <<>>
    ELSE LET first == CHOOSE i \in green : \A j \in green : i <= j
         IN <<ColorCommand(frame_data[first], target)>>

\* processCommand taking target_ball_id from a command of any type
PositionToRgbModule_processCommandAnyType(target, command) ==
    IF "target_ball_id" \in DOMAIN command.module_args
    THEN command.module_args.target_ball_id
    ELSE target

\* PositionToRgbModule::processCommand: target_ball_id_ afterwards
PositionToRgbModule_processCommand(target, command) ==
    IF /\ command.type = "CONFIGURE_MODULE"
       /\ "target_ball_id" \in DOMAIN command.module_args
    THEN command.module_args.target_ball_id
    ELSE target

\* no processCommand call was made on the instance
NoProcessed == [command |-> [type |-> "NONE", module_args |-> <<>>],
                target_before |-> ""]

\* a default target that reaches every ball
DefaultTargetBroadcast == "255"

\* the constructor's initialiser of target_ball_id_
DefaultTarget == "201"

\* the instance as PositionToRgbModule::PositionToRgbModule leaves it
PosConstructed ==
    /\ target_ball_id_ = DefaultTarget
    /\ pos_configured = FALSE
    /\ pos_frame_data = <<>>
    /\ pos_commands = <<>>
    /\ pos_processed = NoProcessed

\* no call of update is in progress
PosIdle == pos_frame_data = <<>> /\ pos_commands = <<>>

\* LOAD_MODULE constructs a new instance in place of this one
PosConstruct ==
    /\ PosIdle
    /\ target_ball_id_' = DefaultTarget
    /\ pos_configured' = FALSE
    /\ pos_frame_data' = <<>>
    /\ pos_commands' = <<>>
    /\ pos_processed' = NoProcessed
    /\ UNCHANGED exceptPos

\* update is called with a frame record and hands its commands to the
\* callback
PosUpdate ==
    /\ PosIdle
    /\ \E f \in PosFrames :
         /\ pos_frame_data' = f
         /\ pos_commands' = PositionToRgbModule_update(f, target_ball_id_)
    /\ UNCHANGED <<target_ball_id_, pos_configured, pos_processed, exceptPos>>

\* update returns
PosReturn ==
    /\ ~PosIdle
    /\ pos_frame_data' = <<>>
    /\ pos_commands' = <<>>
    /\ UNCHANGED <<target_ball_id_, pos_configured, pos_processed, exceptPos>>

\* a call of processCommand, between two calls of update
PosProcessCommand ==
    /\ PosIdle
    /\ \E c \in PosRequests :
         /\ target_ball_id_' =
               PositionToRgbModule_processCommand(target_ball_id_, c)
         /\ pos_configured' =
               (\/ pos_configured
                \/ /\ c.type = "CONFIGURE_MODULE"
                   /\ "target_ball_id" \in DOMAIN c.module_args)
         /\ pos_processed' = [command |-> c, target_before |-> target_ball_id_]
    /\ UNCHANGED <<pos_frame_data, pos_commands, exceptPos>>

\* ----------------------------------------------------- UdpBallColorModule
\* One instance of the relay module on its own: processCommand and update,
\* with the commands and frame records it is given drawn from bounded sets.

\* values of a color component of a command: the field is wider than a byte
UdpColorSamples == {0, 127, 255, 256, 300}

\* colors of the commands given to processCommand
UdpColors ==
    {[r |-> cr, g |-> cg, b |-> cb] :
        cr \in UdpColorSamples, cg \in {0, 255}, cb \in {7, 511}}

\* target identities of the commands: two octets, a word, nothing
UdpTargets == {"201", "255", "all", ""}

\* the commands given to processCommand
UdpRequests ==
    {[type |-> "SEND_COLOR_COMMAND", ball_id |-> t, color |-> c] :
        t \in UdpTargets, c \in UdpColors} \cup
    {[type |-> k, ball_id |-> "201",
      color |-> [r |-> 0, g |-> 0, b |-> 0]] :
        k \in {"CONFIGURE_MODULE", "LOAD_MODULE"}}

\* ball.id() of the detections of a frame record
UdpBallIds == {"", "201"}

\* frame records: the ids of up to MaxBalls detections
UdpFrames == UNION {[1..n -> UdpBallIds] : n \in 0..MaxBalls}

\* header: byte 66, uint32 0, byte 0, uint16 0
UdpHeader == <<66, 0, 0, 0, 0, 0, 0, 0>>

\* the color packet: header, 0x0a, and the components cast to unsigned char
ColorPacket(color) ==
    UdpHeader \o <<10, U8(color.r), U8(color.g), U8(color.b)>>

\* the brightness packet: header, 0x10, level 7
BrightnessPacket == UdpHeader \o <<16, 7>>

\* the address of a ball: the id appended to the subnet prefix
BallIp(id) == "10.54.136." \o id

\* the strings inet_pton accepts among the ball addresses
ValidAddresses == {BallIp(ToString(n)) : n \in 0..255}

\* what sin_addr may hold when inet_pton rejected the string: the member
\* is not initialised and the result of inet_pton is not looked at
UninitAddresses == {"0.0.0.0", "stale"}

\* UdpSender::connect and send: where a datagram for ip goes
Destinations(ip) ==
    IF ip \in ValidAddresses THEN {ip} ELSE UninitAddresses

\* UdpBallColorModule_processCommand sending whatever the command type
UdpBallColorModule_processCommandAnyType(command) ==
    {<<[addr |-> d, data |-> ColorPacket(command.color)]>> :
        d \in Destinations(BallIp(command.ball_id))}

\* UdpBallColorModule::processCommand: the datagram sequences it may send
UdpBallColorModule_processCommand(command) ==
    IF command.type = "SEND_COLOR_COMMAND"
    THEN {<<[addr |-> d, data |-> ColorPacket(command.color)]>> :
             d \in Destinations(BallIp(command.ball_id))}
    ELSE {<<>>}

\* UdpBallColorModule::update: the datagram sequences it may send.  For
\* every ball a brightness packet and, after 100 ms, a blue color packet,
\* each through a sender of its own
RECURSIVE UdpBallColorModule_update(_)
UdpBallColorModule_update(frame_data) ==
    IF frame_data = <<>> THEN {<<>>}
    ELSE LET ip == BallIp(Head(frame_data)) IN
         {<<[addr |-> d1, data |-> BrightnessPacket],
            [addr |-> d2, data |-> ColorPacket([r |-> 0, g |-> 0, b |-> 255])]>>
            \o rest :
              d1 \in Destinations(ip), d2 \in Destinations(ip),
              rest \in UdpBallColorModule_update(Tail(frame_data))}

\* no call is in progress
NoCall == [op |-> "none", command |-> [type |-> "NONE"], frame_data |-> <<>>]

\* the instance between calls
UdpConstructed ==
    /\ udp_call = NoCall
    /\ udp_datagrams = <<>>
    /\ udp_slept = 0

\* processCommand is called with a command
UdpProcessCommand ==
    /\ udp_call = NoCall
    /\ \E c \in UdpRequests :
         /\ udp_call' = [op |-> "processCommand", command |-> c,
                         frame_data |-> <<>>]
         /\ udp_datagrams' \in UdpBallColorModule_processCommand(c)
    /\ udp_slept' = 0
    /\ UNCHANGED exceptUdp

\* update is called with a frame record
UdpUpdate ==
    /\ udp_call = NoCall
    /\ \E f \in UdpFrames :
         /\ udp_call' = [op |-> "update", command |-> NoCall.command,
                         frame_data |-> f]
         /\ udp_datagrams' \in UdpBallColorModule_update(f)
         /\ udp_slept' = 100 * Len(f)
    /\ UNCHANGED exceptUdp

\* the call returns
UdpReturn ==
    /\ udp_call # NoCall
    /\ udp_call' = NoCall
    /\ udp_datagrams' = <<>>
    /\ udp_slept' = 0
    /\ UNCHANGED exceptUdp

\* ------------------------------------- BallTracker::mergeNearbyDetections
\* The merge pass on its own.  A point is a pair of rationals with one
\* denominator: [x |-> 90, y |-> 0, d |-> 3] is (30, 0).  Centers are given
\* in whole pixels; the centroid of a cluster is exact, where the code
\* divides floats.

\* the largest number of centers in a list given to the merge pass
MaxCenters == 3

\* MERGE_DISTANCE_THRESHOLD, in pixels
MERGE_DISTANCE_THRESHOLD == 80

\* the centers of the input lists, in pixels
MergePoints ==
    {[x |-> px, y |-> py, d |-> 1] : px \in {0, 60, 100, 200}, py \in {0, 60}}

\* the input lists
MergeInputs == UNION {[1..n -> MergePoints] : n \in 0..MaxCenters}

\* calculateDistance(p1, p2) < MERGE_DISTANCE_THRESHOLD, on the squares
IsNear(p1, p2) ==
    LET dx == p1.x * p2.d - p2.x * p1.d
        dy == p1.y * p2.d - p2.y * p1.d
        s  == p1.d * p2.d
    IN dx * dx + dy * dy <
          MERGE_DISTANCE_THRESHOLD * MERGE_DISTANCE_THRESHOLD * s * s

\* GrowCluster letting a center join although an earlier cluster has it
RECURSIVE GrowClusterIgnoringUsed(_, _, _, _)
GrowClusterIgnoringUsed(centers, cluster, j, used) ==
    IF j > Len(centers) THEN cluster
    ELSE IF \E k \in 1..Len(cluster) :
               IsNear(centers[j], centers[cluster[k]])
         THEN GrowClusterIgnoringUsed(centers, Append(cluster, j), j + 1,
                                      used)
         ELSE GrowClusterIgnoringUsed(centers, cluster, j + 1, used)

\* the inner loop from index j on: a center not yet used joins the cluster
\* when it is near a center that is in the cluster at that time
RECURSIVE GrowCluster(_, _, _, _)
GrowCluster(centers, cluster, j, used) ==
    IF j > Len(centers) THEN cluster
    ELSE IF /\ j \notin used
            /\ \E k \in 1..Len(cluster) :
                  IsNear(centers[j], centers[cluster[k]])
         THEN GrowCluster(centers, Append(cluster, j), j + 1, used)
         ELSE GrowCluster(centers, cluster, j + 1, used)

\* the product of the denominators of the points at the given indices
RECURSIVE DenProduct(_, _)
DenProduct(centers, idx) ==
    IF idx = <<>> THEN 1
    ELSE centers[Head(idx)].d * DenProduct(centers, Tail(idx))

\* the sum of one coordinate of the points at the given indices, over the
\* denominator den
RECURSIVE SumOver(_, _, _, _)
SumOver(centers, idx, den, axis) ==
    IF idx = <<>> THEN 0
    ELSE LET p == centers[Head(idx)] IN
         (IF axis = "x" THEN p.x ELSE p.y) * (den \div p.d)
            + SumOver(centers, Tail(idx), den, axis)

\* the centroid of a cluster: the sums divided by cluster.size()
Centroid(centers, idx) ==
    LET den == DenProduct(centers, idx) IN
    [x |-> SumOver(centers, idx, den, "x"),
     y |-> SumOver(centers, idx, den, "y"),
     d |-> den * Len(idx)]

\* the outer loop from index i on
RECURSIVE MergeFrom(_, _, _)
MergeFrom(centers, i, used) ==
    IF i > Len(centers) THEN <<>>
    ELSE IF i \in used THEN MergeFrom(centers, i + 1, used)
    ELSE LET cluster == GrowCluster(centers, <<i>>, i + 1, used \cup {i}) IN
         <<Centroid(centers, cluster)>> \o
         MergeFrom(centers, i + 1,
                   used \cup {cluster[k] : k \in 1..Len(cluster)})

\* the clusters the outer loop builds from index i on, each as the
\* positions of its centers in the input
RECURSIVE ClustersFrom(_, _, _)
ClustersFrom(centers, i, used) ==
    IF i > Len(centers) THEN <<>>
    ELSE IF i \in used THEN ClustersFrom(centers, i + 1, used)
    ELSE LET cluster == GrowCluster(centers, <<i>>, i + 1, used \cup {i}) IN
         <<cluster>> \o
         ClustersFrom(centers, i + 1,
                      used \cup {cluster[k] : k \in 1..Len(cluster)})

\* BallTracker::mergeNearbyDetections
mergeNearbyDetections(centers) == MergeFrom(centers, 1, {})

\* no call of the merge pass is in progress
MergeIdle ==
    /\ merge_pc = "idle"
    /\ merge_centers = <<>>
    /\ merge_merged = <<>>
    /\ merge_again = <<>>

\* the merge pass is called with a list of centers
MergeCall ==
    /\ merge_pc = "idle"
    /\ \E centers \in MergeInputs :
         /\ merge_centers' = centers
         /\ merge_merged' = mergeNearbyDetections(centers)
    /\ merge_pc' = "merged"
    /\ UNCHANGED <<merge_again, exceptMerge>>

\* the merge pass is called with the list it returned
MergeAgain ==
    /\ merge_pc = "merged"
    /\ merge_again' = mergeNearbyDetections(merge_merged)
    /\ merge_pc' = "again"
    /\ UNCHANGED <<merge_centers, merge_merged, exceptMerge>>

\* the results are dropped
MergeReturn ==
    /\ merge_pc = "again"
    /\ merge_pc' = "idle"
    /\ merge_centers' = <<>>
    /\ merge_merged' = <<>>
    /\ merge_again' = <<>>
    /\ UNCHANGED exceptMerge

\* --------------------------- BallTracker::getAveragedDepth, detectBalls
\* Depth averaging and the acceptance of merged centers on their own.
\* Depths are in millimetres where the code has metres in a float; an
\* averaged depth is the rational [total, count], the value 0.0 being
\* [total |-> 0, count |-> 1].

\* depth_frame.get_width() and get_height()
DepthWidth == 4
DepthHeight == 4

\* the pixels of the depth frame
Pixels == (0..(DepthWidth - 1)) \X (0..(DepthHeight - 1))

\* depth readings: none, inside the range, beyond it (the two average to
\* the end of the range)
DepthSamples == {0, 2000, 4000}

\* depth frames: no reading anywhere but at up to two pixels
DepthFrames ==
    {[p \in Pixels |-> IF p = a THEN va ELSE IF p = b THEN vb ELSE 0] :
        a \in Pixels, b \in Pixels, va \in DepthSamples, vb \in DepthSamples}

\* const int patch_size = 5
patch_size == 5

\* MAX_DEPTH, in millimetres
MAX_DEPTH == 3000

\* the most merged centers one color has in a frame
MaxBlobs == 2

\* the color profiles in the order of colors_
ColorNames == <<"pink", "orange", "green", "yellow">>

\* merged centers, as points with a denominator: two corners of the frame
\* and a centroid between pixels
DetectCenters ==
    {[x |-> 0, y |-> 0, d |-> 1], [x |-> 3, y |-> 3, d |-> 1],
     [x |-> 3, y |-> 5, d |-> 2]}

\* what detectBallsForColor returns for a color: up to MaxBlobs centers
CenterLists == UNION {[1..n -> DetectCenters] : n \in 0..MaxBlobs}

\* the frame timestamps
Timestamps == {17, 18}

Max(a, b) == IF a < b THEN b ELSE a
Min(a, b) == IF a < b THEN a ELSE b

\* the inner loop over cx; with every the zero readings are counted too
RECURSIVE PatchRow(_, _, _, _, _, _)
PatchRow(dframe, cy, cx, end_x, acc, every) ==
    IF cx > end_x THEN acc
    ELSE LET depth == dframe[<<cx, cy>>] IN
         PatchRow(dframe, cy, cx + 1, end_x,
                  IF depth > 0 \/ every
                  THEN [total |-> acc.total + depth, count |-> acc.count + 1]
                  ELSE acc,
                  every)

\* the outer loop over cy
RECURSIVE PatchRows(_, _, _, _, _, _, _)
PatchRows(dframe, cy, end_y, start_x, end_x, acc, every) ==
    IF cy > end_y THEN acc
    ELSE PatchRows(dframe, cy + 1, end_y, start_x, end_x,
                   PatchRow(dframe, cy, start_x, end_x, acc, every), every)

\* the patch clipped to the frame, summed and counted
PatchTotal(dframe, x, y, size, every) ==
    LET start_x == Max(0, x - size \div 2)
        end_x   == Min(DepthWidth - 1, x + size \div 2)
        start_y == Max(0, y - size \div 2)
        end_y   == Min(DepthHeight - 1, y + size \div 2)
        acc     == PatchRows(dframe, start_y, end_y, start_x, end_x,
                             [total |-> 0, count |-> 0], every)
    IN IF acc.count > 0 THEN acc ELSE [total |-> 0, count |-> 1]

\* getAveragedDepth dividing by the number of all samples of the patch
getAveragedDepthAllSamples(dframe, x, y, size) ==
    PatchTotal(dframe, x, y, size, TRUE)

\* BallTracker::getAveragedDepth
getAveragedDepth(dframe, x, y, size) == PatchTotal(dframe, x, y, size, FALSE)

\* detectBalls for the centers of one color, from index i on
RECURSIVE DetectCentersOf(_, _, _, _, _)
DetectCentersOf(dframe, name, centers, i, timestamp_us) ==
    IF i > Len(centers) THEN <<>>
    ELSE LET center == centers[i]
             x == center.x \div center.d
             y == center.y \div center.d
             inside == x >= 0 /\ x < DepthWidth /\ y >= 0 /\ y < DepthHeight
             depth == IF inside THEN getAveragedDepth(dframe, x, y, patch_size)
                      ELSE [total |-> 0, count |-> 1]
             found ==
                IF /\ inside
                   /\ depth.total > 0
                   /\ depth.total < MAX_DEPTH * depth.count
                THEN <<[id |-> name \o "_" \o ToString(timestamp_us),
                        color_name |-> name, center |-> center,
                        depth |-> depth, confidence |-> 1,
                        is_held |-> FALSE, timestamp_us |-> timestamp_us]>>
                ELSE <<>>
         IN found \o DetectCentersOf(dframe, name, centers, i + 1, timestamp_us)

\* BallTracker::detectBalls: the loop over colors_ from index c on, where
\* found[name] is what detectBallsForColor returns for the color
RECURSIVE detectBallsFrom(_, _, _, _)
detectBallsFrom(dframe, found, c, timestamp_us) ==
    IF c > Len(ColorNames) THEN <<>>
    ELSE DetectCentersOf(dframe, ColorNames[c], found[ColorNames[c]], 1,
                         timestamp_us)
         \o detectBallsFrom(dframe, found, c + 1, timestamp_us)

\* BallTracker::detectBalls
detectBalls(dframe, found, timestamp_us) ==
    detectBallsFrom(dframe, found, 1, timestamp_us)

\* no call is in progress
DepthIdle ==
    /\ depth_op = "idle"
    /\ depth_frame = [p \in Pixels |-> 0]
    /\ depth_args = <<>>
    /\ depth_result = <<>>

\* getAveragedDepth is called for a pixel of a depth frame
DepthCall ==
    /\ depth_op = "idle"
    /\ \E dframe \in DepthFrames, p \in Pixels :
         /\ depth_frame' = dframe
         /\ depth_args' = [x |-> p[1], y |-> p[2]]
         /\ depth_result' = getAveragedDepth(dframe, p[1], p[2], patch_size)
    /\ depth_op' = "getAveragedDepth"
    /\ UNCHANGED exceptDepth

\* detectBalls is called for a frame in which one color has blobs
DetectCall ==
    /\ depth_op = "idle"
    /\ \E dframe \in DepthFrames, k \in 1..Len(ColorNames),
          centers \in CenterLists, t \in Timestamps :
         LET found == [n \in {ColorNames[c] : c \in 1..Len(ColorNames)} |->
                          IF n = ColorNames[k] THEN centers ELSE <<>>]
         IN /\ depth_frame' = dframe
            /\ depth_args' = [color |-> ColorNames[k], centers |-> centers,
                              timestamp_us |-> t]
            /\ depth_result' = detectBalls(dframe, found, t)
    /\ depth_op' = "detectBalls"
    /\ UNCHANGED exceptDepth

\* the call returns
DepthReturn ==
    /\ depth_op # "idle"
    /\ depth_op' = "idle"
    /\ depth_frame' = [p \in Pixels |-> 0]
    /\ depth_args' = <<>>
    /\ depth_result' = <<>>
    /\ UNCHANGED exceptDepth

\* ------------- BallTracker: color profiles, settings file and calibration
\* the calls made on one tracker
MaxCalls == 3

\* cv::Scalar of three channels
Scalar(v0, v1, v2) == <<v0, v1, v2>>

\* the default second interval of a ColorRange: disabled
Disabled == Scalar(-1, -1, -1)

ColorRange(n, min, max) ==
    [name |-> n, min_hsv |-> min, max_hsv |-> max,
     min_hsv2 |-> Disabled, max_hsv2 |-> Disabled]

\* the profiles of the constructor and of resetToDefaults
resetToDefaults ==
    << ColorRange("pink", Scalar(150, 150, 90), Scalar(170, 255, 255)),
       ColorRange("orange", Scalar(5, 150, 120), Scalar(15, 255, 255)),
       ColorRange("green", Scalar(45, 120, 70), Scalar(75, 255, 255)),
       ColorRange("yellow", Scalar(25, 120, 100), Scalar(35, 255, 255)) >>

\* the file named by settings_file_: absent, not a JSON text, or a JSON
\* object with an entry for some names; saved tells whether saveSettings
\* wrote it
NoEntries == [n \in {} |-> <<>>]

MissingFile == [kind |-> "missing", saved |-> FALSE, profiles |-> NoEntries]

UnparsableFile ==
    [kind |-> "unparsable", saved |-> FALSE, profiles |-> NoEntries]

JsonFile(bySave, entries) ==
    [kind |-> "json", saved |-> bySave, profiles |-> entries]

\* files put in place by something else than this tracker: no file, a
\* text that does not parse, a document whose entry for orange lacks
\* "min_hsv" after a complete entry for pink, a document whose entry for
\* orange has "min_hsv2" without "max_hsv2", and a document with two
\* intervals for green only
ExternalFiles ==
    { MissingFile,
      UnparsableFile,
      JsonFile(FALSE,
          [n \in {"pink", "orange"} |->
              IF n = "pink"
              THEN [min_hsv |-> Scalar(160, 100, 100),
                    max_hsv |-> Scalar(175, 255, 255)]
              ELSE [max_hsv |-> Scalar(20, 255, 255)]]),
      JsonFile(FALSE,
          [n \in {"orange"} |->
              [min_hsv |-> Scalar(0, 100, 100),
               max_hsv |-> Scalar(12, 255, 255),
               min_hsv2 |-> Scalar(172, 100, 100)]]),
      JsonFile(FALSE,
          [n \in {"green"} |->
              [min_hsv |-> Scalar(50, 100, 100),
               max_hsv |-> Scalar(70, 255, 255),
               min_hsv2 |-> Scalar(40, 100, 100),
               max_hsv2 |-> Scalar(45, 255, 255)]]) }

\* loadSettings, the body of the loop for one profile: each assignment
\* is made before the next key is read, and reading a key that is absent
\* throws
LoadEntry(color, color_data) ==
    IF "min_hsv" \notin DOMAIN color_data
    THEN [color |-> color, thrown |-> TRUE]
    ELSE LET c1 == [color EXCEPT !.min_hsv = color_data.min_hsv]
         IN IF "max_hsv" \notin DOMAIN color_data
            THEN [color |-> c1, thrown |-> TRUE]
            ELSE LET c2 == [c1 EXCEPT !.max_hsv = color_data.max_hsv]
                 IN IF "min_hsv2" \notin DOMAIN color_data
                    THEN [color |-> c2, thrown |-> FALSE]
                    ELSE LET c3 == [c2 EXCEPT
                                      !.min_hsv2 = color_data.min_hsv2]
                         IN IF "max_hsv2" \notin DOMAIN color_data
                            THEN [color |-> c3, thrown |-> TRUE]
                            ELSE [color |-> [c3 EXCEPT !.max_hsv2 =
                                                color_data.max_hsv2],
                                  thrown |-> FALSE]

\* loadSettings, the loop over colors_ from the i-th profile on
RECURSIVE LoadFrom(_, _, _)
LoadFrom(colors, i, j) ==
    IF i > Len(colors)
    THEN [colors |-> colors, result |-> TRUE]
    ELSE IF colors[i].name \notin DOMAIN j
         THEN LoadFrom(colors, i + 1, j)
         ELSE LET r == LoadEntry(colors[i], j[colors[i].name])
                  loaded == [colors EXCEPT ![i] = r.color]
              IN IF r.thrown
                 THEN [colors |-> loaded, result |-> FALSE]
                 ELSE LoadFrom(loaded, i + 1, j)

\* BallTracker::loadSettings: the profiles after the call and what it
\* returned
loadSettings(colors, file) ==
    IF file.kind = "missing"
    THEN [colors |-> colors, result |-> FALSE]
    ELSE IF file.kind = "unparsable"
         THEN [colors |-> colors, result |-> FALSE]
         ELSE LoadFrom(colors, 1, file.profiles)

\* saveSettings, the entry written for one profile
SavedEntry(color) ==
    IF color.min_hsv2[1] >= 0
    THEN [min_hsv |-> color.min_hsv, max_hsv |-> color.max_hsv,
          min_hsv2 |-> color.min_hsv2, max_hsv2 |-> color.max_hsv2]
    ELSE [min_hsv |-> color.min_hsv, max_hsv |-> color.max_hsv]

\* BallTracker::saveSettings: the file it writes
saveSettings(colors) ==
    JsonFile(TRUE,
        [n \in {colors[i].name : i \in 1..Len(colors)} |->
            SavedEntry(colors[CHOOSE i \in 1..Len(colors) :
                                  colors[i].name = n])])

h_tolerance == 8
s_tolerance == 40
v_tolerance == 40

\* the names calibrateColor is called with; no profile is named "red"
CalibratedNames == {"pink", "orange", "green", "red"}

\* (int)mean[0], (int)mean[1], (int)mean[2] of the sampled area
SampledMeans == {Scalar(h, 20, 240) : h \in {5, 12, 100, 175}}

\* std::find_if over colors_: the position of the profile, 0 for end()
FindColor(colors, color_name) ==
    LET found == {i \in 1..Len(colors) : colors[i].name = color_name}
    IN IF found = {} THEN 0
       ELSE CHOOSE i \in found : \A k \in found : i <= k

\* calibrateColor, the intervals it assigns to the profile it found
CalibratedRange(color, color_name, mean) ==
    LET h_mean == mean[1]
        s_min == Max(0, mean[2] - s_tolerance)
        v_min == Max(0, mean[3] - v_tolerance)
        s_max == Min(255, mean[2] + s_tolerance)
        v_max == Min(255, mean[3] + v_tolerance)
    IN IF \/ (color_name = "pink" /\ (h_mean <= 10 \/ h_mean >= 170))
          \/ (color_name = "orange" /\ h_mean <= 15)
       THEN IF h_mean <= 15
            THEN [color EXCEPT
                    !.min_hsv = Scalar(Max(0, h_mean - h_tolerance),
                                       s_min, v_min),
                    !.max_hsv = Scalar(Min(15, h_mean + h_tolerance),
                                       s_max, v_max),
                    !.min_hsv2 = Scalar(Max(165, 180 - h_tolerance),
                                        s_min, v_min),
                    !.max_hsv2 = Scalar(180, s_max, v_max)]
            ELSE [color EXCEPT
                    !.min_hsv = Scalar(Max(165, h_mean - h_tolerance),
                                       s_min, v_min),
                    !.max_hsv = Scalar(180, s_max, v_max),
                    !.min_hsv2 = Scalar(0, s_min, v_min),
                    !.max_hsv2 = Scalar(Min(15, h_tolerance),
                                        s_max, v_max)]
       ELSE [color EXCEPT
               !.min_hsv = Scalar(Max(0, h_mean - h_tolerance),
                                  s_min, v_min),
               !.max_hsv = Scalar(Min(180, h_mean + h_tolerance),
                                  s_max, v_max),
               !.min_hsv2 = Scalar(-1, -1, -1),
               !.max_hsv2 = Scalar(-1, -1, -1)]

\* BallTracker::calibrateColor for the sampled mean
calibrateColor(colors, color_name, mean) ==
    LET it == FindColor(colors, color_name)
    IN IF it = 0 THEN colors
       ELSE [colors EXCEPT ![it] = CalibratedRange(@, color_name, mean)]

\* a call on the tracker
Call(op, color_name, mean, before, returned) ==
    [op |-> op, color_name |-> color_name, mean |-> mean,
     before |-> before, result |-> returned]

\* BallTracker::BallTracker with no settings file: the defaults, then a
\* loadSettings that finds no file
TrackerConstructed ==
    /\ settings_file = MissingFile
    /\ colors_ = loadSettings(resetToDefaults, MissingFile).colors
    /\ set_op = Call("construct", "", Scalar(0, 0, 0), resetToDefaults,
                     loadSettings(resetToDefaults, MissingFile).result)
    /\ set_ops = 0

TrackerCalibrate ==
    /\ set_ops < MaxCalls
    /\ \E color_name \in CalibratedNames, mean \in SampledMeans :
         /\ colors_' = calibrateColor(colors_, color_name, mean)
         /\ set_op' = Call("calibrateColor", color_name, mean, colors_, TRUE)
    /\ set_ops' = set_ops + 1
    /\ UNCHANGED settings_file
    /\ UNCHANGED exceptSet

TrackerSave ==
    /\ set_ops < MaxCalls
    /\ settings_file' = saveSettings(colors_)
    /\ set_op' = Call("saveSettings", "", Scalar(0, 0, 0), colors_, TRUE)
    /\ set_ops' = set_ops + 1
    /\ UNCHANGED colors_
    /\ UNCHANGED exceptSet

TrackerLoad ==
    /\ set_ops < MaxCalls
    /\ colors_' = loadSettings(colors_, settings_file).colors
    /\ set_op' = Call("loadSettings", "", Scalar(0, 0, 0), colors_,
                      loadSettings(colors_, settings_file).result)
    /\ set_ops' = set_ops + 1
    /\ UNCHANGED settings_file
    /\ UNCHANGED exceptSet

TrackerReset ==
    /\ set_ops < MaxCalls
    /\ colors_' = resetToDefaults
    /\ set_op' = Call("resetToDefaults", "", Scalar(0, 0, 0), colors_, TRUE)
    /\ set_ops' = set_ops + 1
    /\ UNCHANGED settings_file
    /\ UNCHANGED exceptSet

\* the means of uniform patches: every hue, and saturations and values
\* at and between the ends of their channels
PatchMeans ==
    {Scalar(h, s, v) : h \in 0..180, s \in {0, 40, 128, 255},
                       v \in {0, 215, 255}}

\* a tracker just constructed is calibrated on a uniform patch
CalibrateOnPatch ==
    /\ set_op.op = "construct"
    /\ \E i \in 1..Len(colors_), mean \in PatchMeans :
         /\ colors_' = calibrateColor(colors_, colors_[i].name, mean)
         /\ set_op' = Call("calibrateColor", colors_[i].name, mean, colors_,
                           TRUE)
    /\ UNCHANGED <<settings_file, set_ops>>
    /\ UNCHANGED exceptSet

\* another tracker is constructed, again with no settings file
TrackerConstruct ==
    /\ set_op.op = "calibrateColor"
    /\ settings_file' = MissingFile
    /\ colors_' = loadSettings(resetToDefaults, MissingFile).colors
    /\ set_op' = Call("construct", "", Scalar(0, 0, 0), resetToDefaults,
                      loadSettings(resetToDefaults, MissingFile).result)
    /\ set_ops' = 0
    /\ UNCHANGED exceptSet

\* InRange leaving out the bounds
InRangeExclusive(pixel, lowerb, upperb) ==
    \A k \in 1..3 : lowerb[k] < pixel[k] /\ pixel[k] < upperb[k]

\* cv::inRange for one pixel: every channel within the bounds, inclusive
InRange(pixel, lowerb, upperb) ==
    \A k \in 1..3 : lowerb[k] <= pixel[k] /\ pixel[k] <= upperb[k]

\* detectBallsForColor, the mask at one pixel: the first interval, or-ed
\* with the second one when it is enabled
Mask(pixel, color) ==
    \/ InRange(pixel, color.min_hsv, color.max_hsv)
    \/ /\ color.min_hsv2[1] >= 0
       /\ InRange(pixel, color.min_hsv2, color.max_hsv2)

\* the settings file is replaced or removed between two calls
FileReplaced ==
    /\ set_ops < MaxCalls
    /\ \E file \in ExternalFiles :
         /\ file # settings_file
         /\ settings_file' = file
    /\ set_op' = Call("none", "", Scalar(0, 0, 0), colors_, TRUE)
    /\ set_ops' = set_ops + 1
    /\ UNCHANGED colors_
    /\ UNCHANGED exceptSet

\* ------------------------------------- Engine::run: fusion of DNN tracks
\* the tracks DNNTracker::update returns: identity and box (top, left,
\* width, height) in pixels
Tracks ==
    {[track_id |-> 1, tlwh |-> <<0, 0, 1, 1>>],
     [track_id |-> 2, tlwh |-> <<1, 1, 3, 3>>]}

TrackLists == UNION {[1..n -> Tracks] : n \in 0..MaxBlobs}

\* depth_frame.get_units() in micrometres: 0.001 m
DepthUnits == 1000

\* Engine::run, the body of the loop over tracks: the ball added to
\* frame_data; get_distance returns metres, which the assignment to
\* uint16_t truncates, and depth_m is in micrometres
FuseTrack(dframe, track) ==
    LET pixel_x == [n |-> 2 * track.tlwh[1] + track.tlwh[3], d |-> 2]
        pixel_y == [n |-> 2 * track.tlwh[2] + track.tlwh[4], d |-> 2]
        depth_value ==
            (dframe[<<pixel_x.n \div pixel_x.d, pixel_y.n \div pixel_y.d>>]
                \div 1000) % 65536
    IN [track_id |-> track.track_id,
        center |-> [x |-> pixel_x.n, y |-> pixel_y.n, d |-> 2],
        depth_m |-> depth_value * DepthUnits]

\* Engine::run, the loop over tracks
fuseTracks(dframe, tracks) ==
    [i \in 1..Len(tracks) |-> FuseTrack(dframe, tracks[i])]

\* the frame loop fuses the tracks of a frame with its depth frame
FuseCall ==
    /\ depth_op = "idle"
    /\ \E dframe \in DepthFrames, tracks \in TrackLists :
         /\ depth_frame' = dframe
         /\ depth_args' = [tracks |-> tracks]
         /\ depth_result' = fuseTracks(dframe, tracks)
    /\ depth_op' = "fuseTracks"
    /\ UNCHANGED exceptDepth

\* ------------------------------------------------------ DNNTracker::update
\* the update calls made on one tracker
MaxUpdates == 3

\* what postprocess returns for a frame: boxes with label and score in
\* hundredths
Objects ==
    {[rect |-> <<0, 0, 1, 1>>, label |-> 32, prob |-> 90],
     [rect |-> <<1, 1, 3, 3>>, label |-> 32, prob |-> 30]}

ObjectLists == UNION {[1..n -> Objects] : n \in 0..MaxBlobs}

\* the BBox made of a detected object
BBox(obj) ==
    [x |-> obj.rect[1], y |-> obj.rect[2], w |-> obj.rect[3],
     h |-> obj.rect[4], score |-> obj.prob, label |-> obj.label]

\* DNNTracker::update: the call it makes on byte_tracker for a frame of
\* the given size, frame_id being its fourth argument
DNNTracker_update(detected_objects, cols, rows) ==
    [detections |-> [i \in 1..Len(detected_objects) |->
                        BBox(detected_objects[i])],
     img_w |-> cols, img_h |-> rows, frame_id |-> 1]

\* DNNTracker::DNNTracker: a fresh BYTETracker
DnnConstructed == byte_tracker = <<>>

DnnUpdate ==
    /\ Len(byte_tracker) < MaxUpdates
    /\ \E detected_objects \in ObjectLists :
         byte_tracker' = Append(byte_tracker,
             DNNTracker_update(detected_objects, DepthWidth, DepthHeight))
    /\ UNCHANGED exceptDnn

\* ------------------------------------------------------------------- Init
\* the state after Engine::Engine: color_module_ constructed and set up
Init ==
    /\ running_ = FALSE
    /\ crashed = FALSE
    /\ command_queue_ = <<>>
    /\ command_queue_mutex_ = "free"
    /\ active_module_ = 0
    /\ modules = <<Setup(<<NewModule("Udp")>>, ColorModuleId)[1]>>
    /\ pcF = "f_start"
    /\ fptr = 0
    /\ upd = 0
    /\ frame = "none"
    /\ frames = 0
    /\ published = [frame |-> 0, accepted |-> FALSE, sends |-> 0]
    /\ pcC = "c_idle"
    /\ request = NoRequest
    /\ result = FALSE
    /\ internal_command = 0
    /\ command_found = FALSE
    /\ response = NoResponse
    /\ atRecv = NoSnapshot
    /\ chan = <<>>
    /\ sent = 0
    /\ received = 0
    /\ replies = <<>>
    /\ enqueued = 0
    /\ dispatched = <<>>
    /\ datagrams = 0
    /\ PosConstructed
    /\ UdpConstructed
    /\ MergeIdle
    /\ DepthIdle
    /\ TrackerConstructed
    /\ DnnConstructed


\* ------------------------------------------------------------ environment
\* Engine::run up to the start of the two loops: running_ is set and the
\* command thread is started
Run ==
    /\ ~crashed
    /\ pcF = "f_start"
    /\ running_' = TRUE
    /\ pcF' = "f_loop"
    /\ pcC' = "c_loop"
    /\ UNCHANGED <<crashed, command_queue_, command_queue_mutex_,
                   active_module_, modules, fptr, upd, frame, frames,
                   published, request, result, internal_command,
                   command_found, response, atRecv, chanVars, enqueued,
                   dispatched, datagrams>>
    /\ UNCHANGED unitVars

\* Engine::stop, called from outside the two loops
Stop ==
    /\ ~crashed
    /\ running_
    /\ running_' = FALSE
    /\ UNCHANGED <<crashed, command_queue_, command_queue_mutex_,
                   active_module_, modules, frameVars, cmdVars, chanVars,
                   enqueued, dispatched, datagrams>>
    /\ UNCHANGED unitVars

\* a client of the REP socket sends a request; a client that has a request
\* outstanding waits for its reply before it sends the next one.  The
\* channel holds the ids of the waiting requests: what a request asks for
\* is the client's free choice and shows when the request is parsed
ClientSend ==
    /\ ~crashed
    /\ sent < MaxRequests
    /\ sent - Len(replies) < NumClients
    /\ chan' = Append(chan, sent + 1)
    /\ sent' = sent + 1
    /\ UNCHANGED <<running_, crashed, command_queue_, command_queue_mutex_,
                   active_module_, modules, frameVars, cmdVars, received,
                   replies, enqueued, dispatched, datagrams>>
    /\ UNCHANGED unitVars

\* -------------------------------------------------------------- frame loop
\* while (running_)
F_Loop ==
    /\ ~crashed
    /\ pcF = "f_loop"
    /\ pcF' = IF running_ THEN "f_wait" ELSE "f_join"
    /\ UNCHANGED <<running_, crashed, command_queue_, command_queue_mutex_,
                   active_module_, modules, fptr, upd, frame, frames,
                   published, cmdVars, chanVars, enqueued, dispatched,
                   datagrams>>
    /\ UNCHANGED unitVars

\* wait_for_frames, alignment, the color/depth check and detection: a
\* frameset with both frames, whose detections are assembled into
\* frame_data; or a frameset that lacks one of them (continue); or no
\* frameset within the wait's timeout: pipeline::wait_for_frames throws,
\* nothing in run catches it, and the exception leaves run while
\* command_thread is joinable, which terminates the process
F_Wait ==
    /\ ~crashed
    /\ pcF = "f_wait"
    /\ \/ /\ frames < MaxFrames
          /\ \E c \in FrameContents : frame' = c
          /\ frames' = frames + 1
          /\ pcF' = "f_slot"
          /\ UNCHANGED crashed
       \/ /\ pcF' = "f_loop"
          /\ UNCHANGED <<frame, frames, crashed>>
       \/ /\ pcF' = "f_timeout"
          /\ crashed' = TRUE
          /\ UNCHANGED <<frame, frames>>
    /\ UNCHANGED <<running_, command_queue_, command_queue_mutex_,
                   active_module_, modules, fptr, upd, published, cmdVars,
                   chanVars, enqueued, dispatched, datagrams>>
    /\ UNCHANGED unitVars

\* if (active_module_): the frame loop reads the slot without any guard
F_Slot ==
    /\ ~crashed
    /\ pcF = "f_slot"
    /\ fptr' = active_module_
    /\ pcF' = IF active_module_ # 0 THEN "f_call" ELSE "f_publish"
    /\ UNCHANGED <<running_, crashed, command_queue_, command_queue_mutex_,
                   active_module_, modules, upd, frame, frames, published,
                   cmdVars, chanVars, enqueued, dispatched, datagrams>>
    /\ UNCHANGED unitVars

\* the pointers the call active_module_->update may go through: the value
\* the test read, or the value of the slot read again (the slot is a plain
\* unique_ptr, so the build may do either)
CallTargets == {fptr, active_module_}

\* active_module_->update(...) is entered.  A call through nullptr kills
\* the process; a call on a deleted instance either kills it or runs the
\* code of the instance that was there
F_Call ==
    /\ ~crashed
    /\ pcF = "f_call"
    /\ \E p \in CallTargets :
         \/ /\ p # 0
            /\ upd' = p
            /\ pcF' = "f_update"
            /\ UNCHANGED crashed
         \/ /\ \/ p = 0
               \/ p # 0 /\ ~modules[p].alive
            /\ crashed' = TRUE
            /\ UNCHANGED <<upd, pcF>>
    /\ fptr' = 0
    /\ UNCHANGED <<running_, command_queue_, command_queue_mutex_,
                   active_module_, modules, frame, frames, published,
                   cmdVars, chanVars, enqueued, dispatched, datagrams>>
    /\ UNCHANGED unitVars

\* the body of update.  UdpBallColorModule: a brightness and a color
\* datagram per ball.  PositionToRgbModule: with a green ball in the frame
\* it builds a SEND_COLOR_COMMAND and calls the callback (Engine::sendCommand),
\* otherwise it returns
F_Update ==
    /\ ~crashed
    /\ pcF = "f_update"
    /\ IF modules[upd].kind = "Pos" /\ frame = "green"
       THEN /\ pcF' = "f_lock"
            /\ UNCHANGED <<upd, datagrams>>
       ELSE /\ pcF' = "f_publish"
            /\ upd' = 0
            /\ datagrams' = datagrams +
                 (IF modules[upd].kind = "Udp"
                  THEN UdpUpdateDatagrams(frame) ELSE 0)
    /\ UNCHANGED <<running_, crashed, command_queue_, command_queue_mutex_,
                   active_module_, modules, fptr, frame, frames, published,
                   cmdVars, chanVars, enqueued, dispatched>>
    /\ UNCHANGED unitVars

\* Engine::sendCommand: std::lock_guard takes command_queue_mutex_
F_Lock ==
    /\ ~crashed
    /\ pcF = "f_lock"
    /\ command_queue_mutex_ = "free"
    /\ command_queue_mutex_' = "frame"
    /\ pcF' = "f_push"
    /\ UNCHANGED <<running_, crashed, command_queue_, active_module_,
                   modules, fptr, upd, frame, frames, published, cmdVars,
                   chanVars, enqueued, dispatched, datagrams>>
    /\ UNCHANGED unitVars

\* Unlock leaving the mutex with its holder
UnlockNever(holder) == holder

\* the mutex after the std::lock_guard of its holder went out of scope
Unlock(holder) == "free"

\* the queue after sendCommand pushed command c
Push(q, c) == Append(q, c)

\* Engine::sendCommand: command_queue_.push, the lock is released, update
\* returns
F_Push ==
    /\ ~crashed
    /\ pcF = "f_push"
    /\ command_queue_' = Push(command_queue_, enqueued + 1)
    /\ enqueued' = enqueued + 1
    /\ command_queue_mutex_' = Unlock("frame")
    /\ upd' = 0
    /\ pcF' = "f_publish"
    /\ UNCHANGED <<running_, crashed, active_module_, modules, fptr, frame,
                   frames, published, cmdVars, chanVars, dispatched,
                   datagrams>>
    /\ UNCHANGED unitVars

\* frame_data of the frame acquired one iteration earlier
frame_data_previous == frames - 1

\* frame_data: the record assembled from the frame acquired in this
\* iteration, named by that frame's acquisition number
frame_data == frames

\* AfterSend sending the same record again until the publisher accepts it
AfterSendRetry(accepted) == IF accepted THEN "f_loop" ELSE "f_publish"

\* where the frame loop goes after send(message, dontwait) returned: the
\* result of send is not looked at, the loop body ends
AfterSend(accepted) == "f_loop"

\* zmq_publisher_.send(message, dontwait): accepted or dropped
F_Publish ==
    /\ ~crashed
    /\ pcF = "f_publish"
    /\ \E accepted \in BOOLEAN :
         /\ published' = [frame |-> frame_data, accepted |-> accepted,
                          sends |-> published.sends + 1]
         /\ pcF' = AfterSend(accepted)
    /\ frame' = "none"
    /\ UNCHANGED <<running_, crashed, command_queue_, command_queue_mutex_,
                   active_module_, modules, fptr, upd, frames, cmdVars, chanVars,
                   enqueued, dispatched, datagrams>>
    /\ UNCHANGED unitVars

\* command_thread.join()
F_Join ==
    /\ ~crashed
    /\ pcF = "f_join"
    /\ pcC = "c_done"
    /\ pcF' = "f_done"
    /\ UNCHANGED <<running_, crashed, command_queue_, command_queue_mutex_,
                   active_module_, modules, fptr, upd, frame, frames,
                   published, cmdVars, chanVars, enqueued, dispatched,
                   datagrams>>
    /\ UNCHANGED unitVars

\* ------------------------------------------------------------ command loop
\* while (running_); the locals of the previous iteration are gone
C_Loop ==
    /\ ~crashed
    /\ pcC = "c_loop"
    /\ pcC' = IF running_ THEN "c_recv" ELSE "c_done"
    /\ request' = NoRequest
    /\ result' = FALSE
    /\ internal_command' = 0
    /\ command_found' = FALSE
    /\ UNCHANGED <<running_, crashed, command_queue_, command_queue_mutex_,
                   active_module_, modules, frameVars, response, atRecv,
                   chanVars, enqueued, dispatched, datagrams>>
    /\ UNCHANGED unitVars

\* zmq_commander_.recv(request, dontwait); on a message the command is
\* parsed and the response starts as a success
C_Recv ==
    /\ ~crashed
    /\ pcC = "c_recv"
    /\ IF chan # <<>>
       THEN /\ \E k \in RequestKinds :
                 request' = [id |-> Head(chan), type |-> k.type,
                             module_name |-> k.module_name]
            /\ chan' = Tail(chan)
            /\ received' = received + 1
            /\ result' = TRUE
            /\ response' = NoResponse
            /\ atRecv' = [slot |-> active_module_, modules |-> modules,
                          queue |-> command_queue_]
            /\ pcC' = "c_handle"
       ELSE /\ result' = FALSE
            /\ pcC' = "c_lock"
            /\ UNCHANGED <<request, chan, received, response, atRecv>>
    /\ UNCHANGED <<running_, crashed, command_queue_, command_queue_mutex_,
                   active_module_, modules, frameVars, internal_command,
                   command_found, sent, replies, enqueued,
                   dispatched, datagrams>>
    /\ UNCHANGED unitVars

\* active_module_ = create_module(command): the slot after the assignment,
\* where fresh is the pointer to the instance create_module constructed
LoadSlot(kind, old, fresh) ==
    IF kind = "null" THEN 0 ELSE fresh

\* active_module_ = create_module(command): the instances after the
\* assignment; unique_ptr's move assignment deletes the instance it held
LoadModules(ms, kind, old) ==
    IF kind = "null" THEN Destroy(ms, old)
    ELSE Append(Destroy(ms, old), NewModule(kind))

\* the external switch, LOAD_MODULE up to the test of the new pointer
HandleLoad ==
    LET kind == create_module(request.module_name) IN
    /\ modules' = LoadModules(modules, kind, active_module_)
    /\ active_module_' = LoadSlot(kind, active_module_, Len(modules) + 1)
    /\ IF active_module_' # 0
       THEN /\ pcC' = "c_setup"
            /\ UNCHANGED response
       ELSE /\ response' = [success |-> FALSE, message |-> "Unknown module"]
            /\ pcC' = "c_reply"

\* HandleUnload answering "Module unloaded" also when no module is active
HandleUnloadAlwaysSucceeds ==
    IF active_module_ # 0
    THEN /\ modules' = Cleanup(modules, active_module_)
         /\ pcC' = "c_reset"
         /\ UNCHANGED <<active_module_, response>>
    ELSE /\ response' = [success |-> TRUE, message |-> "Module unloaded"]
         /\ pcC' = "c_reply"
         /\ UNCHANGED <<active_module_, modules>>

\* HandleUnload going on to reset() without calling cleanup
HandleUnloadNoCleanup ==
    IF active_module_ # 0
    THEN /\ pcC' = "c_reset"
         /\ UNCHANGED <<active_module_, modules, response>>
    ELSE /\ response' = [success |-> FALSE, message |-> "No active module"]
         /\ pcC' = "c_reply"
         /\ UNCHANGED <<active_module_, modules>>

\* the external switch, UNLOAD_MODULE up to the return of cleanup
HandleUnload ==
    IF active_module_ # 0
    THEN /\ modules' = Cleanup(modules, active_module_)
         /\ pcC' = "c_reset"
         /\ UNCHANGED <<active_module_, response>>
    ELSE /\ response' = [success |-> FALSE, message |-> "No active module"]
         /\ pcC' = "c_reply"
         /\ UNCHANGED <<active_module_, modules>>

\* HandleConfigure forwarding to color_module_ instead of the active module
HandleConfigureColorModule ==
    IF active_module_ # 0
    THEN /\ modules' = ProcessCommand(modules, ColorModuleId,
                                      "CONFIGURE_MODULE")
         /\ response' = [success |-> TRUE,
                         message |-> "Module configuration sent"]
         /\ pcC' = "c_reply"
         /\ UNCHANGED active_module_
    ELSE /\ response' = [success |-> FALSE,
                         message |-> "No active module to configure."]
         /\ pcC' = "c_reply"
         /\ UNCHANGED <<active_module_, modules>>

\* the external switch, CONFIGURE_MODULE
HandleConfigure ==
    IF active_module_ # 0
    THEN /\ modules' = ProcessCommand(modules, active_module_,
                                      "CONFIGURE_MODULE")
         /\ response' = [success |-> TRUE,
                         message |-> "Module configuration sent"]
         /\ pcC' = "c_reply"
         /\ UNCHANGED active_module_
    ELSE /\ response' = [success |-> FALSE,
                         message |-> "No active module to configure."]
         /\ pcC' = "c_reply"
         /\ UNCHANGED <<active_module_, modules>>

\* HandleDefault leaving the response as it was initialised
HandleDefaultSilentSuccess ==
    /\ pcC' = "c_reply"
    /\ UNCHANGED <<active_module_, modules, response>>

\* HandleDefault emptying the slot as well
HandleDefaultClearsSlot ==
    /\ response' = [success |-> FALSE, message |-> "Unknown command"]
    /\ pcC' = "c_reply"
    /\ active_module_' = 0
    /\ modules' = Destroy(modules, active_module_)

\* the external switch, default branch
HandleDefault ==
    /\ response' = [success |-> FALSE, message |-> "Unknown command"]
    /\ pcC' = "c_reply"
    /\ UNCHANGED <<active_module_, modules>>

\* switch (command.type()) of the external branch
C_Handle ==
    /\ ~crashed
    /\ pcC = "c_handle"
    /\ IF request.type = "LOAD_MODULE" THEN HandleLoad
       ELSE IF request.type = "UNLOAD_MODULE" THEN HandleUnload
       ELSE IF request.type = "CONFIGURE_MODULE" THEN HandleConfigure
       ELSE HandleDefault
    /\ UNCHANGED <<running_, crashed, command_queue_, command_queue_mutex_,
                   frameVars, request, result, internal_command,
                   command_found, atRecv, chanVars, enqueued, dispatched,
                   datagrams>>
    /\ UNCHANGED unitVars

\* LOAD_MODULE: active_module_->setup() and the success message
C_Setup ==
    /\ ~crashed
    /\ pcC = "c_setup"
    /\ modules' = Setup(modules, active_module_)
    /\ response' = [success |-> TRUE, message |-> "loaded"]
    /\ pcC' = "c_reply"
    /\ UNCHANGED <<running_, crashed, command_queue_, command_queue_mutex_,
                   active_module_, frameVars, request, result,
                   internal_command, command_found, atRecv, chanVars,
                   enqueued, dispatched, datagrams>>
    /\ UNCHANGED unitVars

\* UNLOAD_MODULE: active_module_.reset() and the success message
C_Reset ==
    /\ ~crashed
    /\ pcC = "c_reset"
    /\ modules' = Destroy(modules, active_module_)
    /\ active_module_' = 0
    /\ response' = [success |-> TRUE, message |-> "Module unloaded"]
    /\ pcC' = "c_reply"
    /\ UNCHANGED <<running_, crashed, command_queue_, command_queue_mutex_,
                   frameVars, request, result, internal_command,
                   command_found, atRecv, chanVars, enqueued, dispatched,
                   datagrams>>
    /\ UNCHANGED unitVars

\* SendReply sending nothing when the request failed
SendReplyOnSuccess(rs, req) ==
    IF response.success THEN Append(rs, req.id) ELSE rs

\* SendReply that builds the reply and never sends it
SendNothing(rs, req) == rs

\* the responses sent so far, after the response to request req is sent
SendReply(rs, req) == Append(rs, req.id)

\* zmq_commander_.send(reply, none); command and response go out of scope
C_Reply ==
    /\ ~crashed
    /\ pcC = "c_reply"
    /\ replies' = SendReply(replies, request)
    /\ request' = NoRequest
    /\ response' = NoResponse
    /\ atRecv' = NoSnapshot
    /\ pcC' = "c_lock"
    /\ UNCHANGED <<running_, crashed, command_queue_, command_queue_mutex_,
                   active_module_, modules, frameVars, result,
                   internal_command, command_found, chan, sent, received,
                   enqueued, dispatched, datagrams>>
    /\ UNCHANGED unitVars

\* the internal branch: std::lock_guard takes command_queue_mutex_
C_Lock ==
    /\ ~crashed
    /\ pcC = "c_lock"
    /\ command_queue_mutex_ = "free"
    /\ command_queue_mutex_' = "cmd"
    /\ pcC' = "c_pop"
    /\ UNCHANGED <<running_, crashed, command_queue_, active_module_,
                   modules, frameVars, request, result, internal_command,
                   command_found, response, atRecv, chanVars, enqueued,
                   dispatched, datagrams>>
    /\ UNCHANGED unitVars

\* Front taking the newest command instead of the oldest
FrontNewest(q) == q[Len(q)]

\* the command front() returns
Front(q) == Head(q)

\* the queue after pop()
Pop(q) == Tail(q)

\* C_Pop with the loop condition tested between pop and dispatch
C_PopThenTest ==
    /\ ~crashed
    /\ pcC = "c_pop"
    /\ IF command_queue_ # <<>>
       THEN /\ internal_command' = Front(command_queue_)
            /\ command_queue_' = Pop(command_queue_)
            /\ command_found' = TRUE
            /\ pcC' = IF running_ THEN "c_dispatch" ELSE "c_done"
       ELSE /\ command_found' = FALSE
            /\ pcC' = IF ~result THEN "c_sleep" ELSE "c_loop"
            /\ UNCHANGED <<internal_command, command_queue_>>
    /\ command_queue_mutex_' = Unlock("cmd")
    /\ UNCHANGED <<running_, crashed, active_module_, modules, frameVars,
                   request, result, response, atRecv, chanVars, enqueued,
                   dispatched, datagrams>>
    /\ UNCHANGED unitVars

\* AfterPop sleeping whenever the queue was empty
AfterPopSleepOnEmptyQueue(found, received_one) ==
    IF found THEN "c_dispatch" ELSE "c_sleep"

\* where the iteration goes after the pop: if (command_found) dispatch,
\* then if (!result && !command_found) sleep
AfterPop(found, received_one) ==
    IF found THEN "c_dispatch"
    ELSE IF ~received_one THEN "c_sleep" ELSE "c_loop"

\* front and pop under the lock, then the lock is released
C_Pop ==
    /\ ~crashed
    /\ pcC = "c_pop"
    /\ IF command_queue_ # <<>>
       THEN /\ internal_command' = Front(command_queue_)
            /\ command_queue_' = Pop(command_queue_)
            /\ command_found' = TRUE
            /\ pcC' = AfterPop(TRUE, result)
       ELSE /\ command_found' = FALSE
            /\ pcC' = AfterPop(FALSE, result)
            /\ UNCHANGED <<internal_command, command_queue_>>
    /\ command_queue_mutex_' = Unlock("cmd")
    /\ UNCHANGED <<running_, crashed, active_module_, modules, frameVars,
                   request, result, response, atRecv, chanVars, enqueued,
                   dispatched, datagrams>>
    /\ UNCHANGED unitVars

\* InternalTarget routing to the active module when there is one
InternalTargetActive ==
    IF active_module_ # 0 THEN active_module_ ELSE ColorModuleId

\* the instance the internal switch hands a SEND_COLOR_COMMAND to
InternalTarget == ColorModuleId

\* the internal switch: every queued command is a SEND_COLOR_COMMAND (the
\* only producer is PositionToRgbModule::update) and color_module_ is never
\* null, so color_module_->processCommand runs
C_Dispatch ==
    /\ ~crashed
    /\ pcC = "c_dispatch"
    /\ modules' = ProcessCommand(modules, InternalTarget,
                                 "SEND_COLOR_COMMAND")
    /\ datagrams' = datagrams + UdpProcessDatagrams("SEND_COLOR_COMMAND")
    /\ dispatched' = Append(dispatched, <<InternalTarget, internal_command>>)
    /\ pcC' = "c_loop"
    /\ UNCHANGED <<running_, crashed, command_queue_, command_queue_mutex_,
                   active_module_, frameVars, request, result,
                   internal_command, command_found, response, atRecv,
                   chanVars, enqueued>>
    /\ UNCHANGED unitVars

\* if (!result && !command_found) sleep_for(10 ms): neither branch found
\* work in this iteration
C_Sleep ==
    /\ ~crashed
    /\ pcC = "c_sleep"
    /\ pcC' = "c_loop"
    /\ UNCHANGED <<running_, crashed, command_queue_, command_queue_mutex_,
                   active_module_, modules, frameVars, request, result,
                   internal_command, command_found, response, atRecv,
                   chanVars, enqueued, dispatched, datagrams>>
    /\ UNCHANGED unitVars

\* ------------------------------------------------------------------- Spec
Next ==
    \/ Run
    \/ Stop
    \/ ClientSend
    \/ F_Loop
    \/ F_Wait
    \/ F_Slot
    \/ F_Call
    \/ F_Update
    \/ F_Lock
    \/ F_Push
    \/ F_Publish
    \/ F_Join
    \/ C_Loop
    \/ C_Recv
    \/ C_Handle
    \/ C_Setup
    \/ C_Reset
    \/ C_Reply
    \/ C_Lock
    \/ C_Pop
    \/ C_Dispatch
    \/ C_Sleep

Spec == Init /\ [][Next]_vars

\* the position-to-color module on its own
PosNext ==
    \/ PosConstruct
    \/ PosUpdate
    \/ PosReturn
    \/ PosProcessCommand

SpecPos == Init /\ [][PosNext]_vars

\* the relay module on its own
UdpNext ==
    \/ UdpProcessCommand
    \/ UdpUpdate
    \/ UdpReturn

SpecUdp == Init /\ [][UdpNext]_vars

\* the merge pass on its own
MergeNext ==
    \/ MergeCall
    \/ MergeAgain
    \/ MergeReturn

SpecMerge == Init /\ [][MergeNext]_vars

\* depth averaging and detectBalls on their own
DepthNext ==
    \/ DepthCall
    \/ DetectCall
    \/ FuseCall
    \/ DepthReturn

SpecDepth == Init /\ [][DepthNext]_vars

\* the color profiles of a tracker and its settings file, taken on their
\* own: calibrations, saves, loads and resets in any order
SettingsNext ==
    \/ TrackerCalibrate
    \/ TrackerSave
    \/ TrackerLoad
    \/ TrackerReset
    \/ FileReplaced

SpecSettings == Init /\ [][SettingsNext]_vars

\* calibrations of a tracker just constructed
CalibrationNext ==
    \/ CalibrateOnPatch
    \/ TrackerConstruct

SpecCalibration == Init /\ [][CalibrationNext]_vars

\* processCommand of the two module variants, each on an instance of its
\* own
CommandsNext ==
    \/ PosProcessCommand
    \/ UdpProcessCommand
    \/ UdpReturn

SpecCommands == Init /\ [][CommandsNext]_vars

\* a DNNTracker taken on its own: one update per frame
DnnNext == DnnUpdate

SpecDnn == Init /\ [][DnnNext]_vars

\* ----------------------------------------------------------- properties
\* the command loop holds an external request it has not answered yet
Handling == pcC \in {"c_handle", "c_setup", "c_reset", "c_reply"}

\* the command loop is about to send the response to a request of type t
Answering(t) == pcC = "c_reply" /\ request.type = t

\* q starts with p
IsPrefix(p, q) == Len(p) <= Len(q) /\ SubSeq(q, 1, Len(p)) = p

\* C1: every external request received, of any kind and whether it succeeds
\* or fails, gets exactly one response (the k-th response answers the k-th
\* request, and only the request in hand is still unanswered), every response
\* carries a message, and the internal branch sends none
C1_OneResponsePerRequest ==
    /\ Len(replies) = received - (IF Handling THEN 1 ELSE 0)
    /\ \A i \in 1..Len(replies) : replies[i] = i
    /\ Handling => request.id = received
    /\ pcC = "c_reply" => response.message # ""

\* the second request, which emptied the slot, was answered and an internal
\* command was dispatched in the same iteration without a further response
C1_Witness ==
    /\ pcC = "c_loop"
    /\ result /\ command_found
    /\ received = 2
    /\ Len(replies) = 2
    /\ Len(dispatched) = 1
    /\ active_module_ = 0

\* C2: the commands dispatched so far, the command in hand and the queue are
\* together exactly the commands enqueued, in the order of their enqueue:
\* none lost, duplicated or reordered, each dispatch one processCommand call
C2_FifoExactlyOnce ==
    LET done == [i \in 1..Len(dispatched) |-> dispatched[i][2]]
        hand == IF pcC = "c_dispatch" THEN <<internal_command>> ELSE <<>>
    IN  /\ done \o hand \o command_queue_ = [i \in 1..enqueued |-> i]
        /\ modules[ColorModuleId].colors = Len(dispatched)

\* two commands were enqueued and both were dispatched while running
C2_Witness ==
    /\ running_
    /\ enqueued = 2
    /\ Len(dispatched) = 2
    /\ command_queue_ = <<>>

\* C3: the frame loop runs update only on the live instance held in the
\* slot, never on one that was cleaned up, and not while the command loop
\* is tearing that instance down
C3_SlotRaceFree ==
    upd # 0 =>
        /\ modules[upd].alive
        /\ modules[upd].cleanups = 0
        /\ active_module_ = upd
        /\ pcC # "c_reset"

\* C4: a LOAD_MODULE with an unrecognized name fails and leaves the slot
\* and every instance as they were when the request was received
C4_UnknownLoadChangesNothing ==
    (Answering("LOAD_MODULE") /\ create_module(request.module_name) = "null")
        => /\ ~response.success
           /\ active_module_ = atRecv.slot
           /\ modules = atRecv.modules

\* C5: an UNLOAD_MODULE received with the slot empty fails with the
\* "No active module" message, calls no cleanup, leaves the slot empty and
\* removes nothing from the internal queue
C5_UnloadEmptyFails ==
    (Answering("UNLOAD_MODULE") /\ atRecv.slot = 0)
        => /\ response = [success |-> FALSE, message |-> "No active module"]
           /\ modules = atRecv.modules
           /\ active_module_ = 0
           /\ IsPrefix(atRecv.queue, command_queue_)

\* an UNLOAD_MODULE with no module loaded is about to be answered
C5_Witness == Answering("UNLOAD_MODULE") /\ atRecv.slot = 0

\* C6: an UNLOAD_MODULE received with a module active calls cleanup on that
\* instance once while it is still in the slot, then clears the slot, and
\* answers with success
C6_UnloadCleansThenClears ==
    /\ pcC = "c_reset" =>
          /\ atRecv.slot # 0
          /\ active_module_ = atRecv.slot
          /\ modules[atRecv.slot].alive
          /\ modules[atRecv.slot].cleanups = 1
    /\ (Answering("UNLOAD_MODULE") /\ atRecv.slot # 0) =>
          /\ active_module_ = 0
          /\ ~modules[atRecv.slot].alive
          /\ modules[atRecv.slot].cleanups = 1
          /\ response.success

\* an UNLOAD_MODULE of a loaded module is about to be answered
C6_Witness == Answering("UNLOAD_MODULE") /\ atRecv.slot # 0

\* C7: every instance that was set up and has left the slot has had cleanup
\* called on it
C7_LoadReleasesPrevious ==
    \A p \in 1..Len(modules) :
        (~modules[p].alive /\ modules[p].setups > 0)
            => modules[p].cleanups > 0

\* C8: a CONFIGURE_MODULE is forwarded once to the instance in the slot and
\* to no other, and succeeds; with the slot empty nothing is forwarded and
\* it fails; the slot is the same afterwards
C8_ConfigureForwarded ==
    Answering("CONFIGURE_MODULE") =>
        /\ active_module_ = atRecv.slot
        /\ Len(modules) = Len(atRecv.modules)
        /\ response.success = (atRecv.slot # 0)
        /\ \A p \in 1..Len(modules) :
              modules[p] =
                IF p = atRecv.slot
                THEN [atRecv.modules[p] EXCEPT !.configs = @ + 1]
                ELSE atRecv.modules[p]

\* a CONFIGURE_MODULE was forwarded to a loaded module
C8_Witness ==
    /\ Answering("CONFIGURE_MODULE")
    /\ atRecv.slot # 0
    /\ modules[atRecv.slot].configs = 1

\* C9: whenever the loop is about to read the channel every request read so
\* far has been answered, and never more than one request is unanswered
C9_NoPipelining ==
    /\ pcC = "c_recv" => Len(replies) = received
    /\ received - Len(replies) <= 1

\* the response to the first request is about to be sent while the second
\* request already waits in the channel, unread
C9_Witness ==
    /\ pcC = "c_reply"
    /\ received = 1
    /\ Len(replies) = 0
    /\ chan # <<>>

\* C10: every internal command is handed to color_module_, the instance
\* constructed and set up by the constructor, which is never in the slot,
\* never replaced and never cleaned up
C10_FixedRelayTarget ==
    /\ \A i \in 1..Len(dispatched) : dispatched[i][1] = ColorModuleId
    /\ modules[ColorModuleId] =
          [kind |-> "Udp", alive |-> TRUE, setups |-> 1, cleanups |-> 0,
           configs |-> 0, colors |-> Len(dispatched)]
    /\ active_module_ # ColorModuleId

\* an internal command was just dispatched while the slot held another
\* relay instance
C10_Witness ==
    /\ pcC = "c_loop"
    /\ command_found /\ ~result
    /\ Len(dispatched) >= 1
    /\ active_module_ # 0
    /\ modules[active_module_].kind = "Udp"

\* the positions of the frame loop at which a frame has been acquired and
\* its detections assembled, and its record is not yet offered
FrameInHand == {"f_slot", "f_call", "f_update", "f_lock", "f_push",
                "f_publish"}

\* C11: in an iteration detection comes first, then the update of the
\* active module, then the publish: while a frame is in hand the last
\* record offered is the one of the frame before it, update runs only
\* between detection and publish, and outside an iteration every acquired
\* frame has been offered, so records are offered in acquisition order
C11_DetectUpdatePublishOrder ==
    /\ pcF \in FrameInHand =>
          /\ frames >= 1
          /\ published.frame = frames - 1
    /\ pcF \notin FrameInHand => published.frame = frames
    /\ upd # 0 => pcF \in {"f_update", "f_lock", "f_push"}
    /\ pcF \in {"f_slot", "f_call", "f_publish"} => upd = 0
    /\ pcF \in {"f_lock", "f_push"} => upd # 0

\* the second frame's record has been offered after its update enqueued a
\* color command, the first frame's update having done the same
C11_Witness ==
    /\ pcF = "f_loop"
    /\ published.frame = 2
    /\ enqueued = 2

\* C12: once stop() has cleared running_ during a run, both loops come to
\* their end and run() returns: the process does not die on the way
C12_StopTerminatesRun ==
    (~running_ /\ pcF # "f_start") => ~crashed

\* C13: when the command loop has exited, every request it received has
\* its response sent, and every internal command it popped has been
\* dispatched: nothing is in hand
C13_NothingHalfProcessed ==
    pcC = "c_done" =>
        /\ Len(replies) = received
        /\ request = NoRequest
        /\ Len(dispatched) + Len(command_queue_) = enqueued
        /\ internal_command = 0
        /\ command_queue_mutex_ # "cmd"

\* the command loop has exited after it answered a request and dispatched
\* an internal command, and run() has joined it
C13_Witness ==
    /\ pcC = "c_done"
    /\ pcF = "f_done"
    /\ received >= 1
    /\ Len(dispatched) >= 1

\* C14: a wait for frames that times out is not an error: it does not end
\* the frame loop or the engine
C14_TimeoutSkipsIteration ==
    pcF = "f_timeout" => ~crashed

\* C15: the k-th send on the publisher offers the record of the k-th
\* acquired frame: every record is offered once, none is offered again
\* after it was dropped, and the send never holds the frame loop back
C15_OfferedOnceNeverRetried ==
    /\ published.sends = published.frame
    /\ published.sends <= frames
    /\ (pcF = "f_publish" /\ ~crashed) => ENABLED F_Publish

\* the record of the first frame was dropped by the publisher and the
\* frame loop has acquired the second frame and is about to offer it
C15_Witness ==
    /\ pcF = "f_publish"
    /\ frames = 2
    /\ published = [frame |-> 1, accepted |-> FALSE, sends |-> 1]

\* C16: the slot holds no instance or one, and whenever update is entered
\* it is entered on the live instance the slot holds at that moment
C16_UpdateOnlyOnSlotInstance ==
    [][(upd = 0 /\ upd' # 0) =>
          /\ upd' = active_module_
          /\ modules[upd'].alive]_vars

\* C17: a request of a kind other than LOAD_MODULE, UNLOAD_MODULE and
\* CONFIGURE_MODULE is answered with the failure "Unknown command" and
\* leaves slot, instances and queue as they were; and a success is
\* answered only when the operation asked for has been applied
C17_SuccessOnlyWhenApplied ==
    /\ (Answering("SEND_COLOR_COMMAND") \/ Answering("UNKNOWN")) =>
          /\ response = [success |-> FALSE, message |-> "Unknown command"]
          /\ active_module_ = atRecv.slot
          /\ modules = atRecv.modules
          /\ IsPrefix(atRecv.queue, command_queue_)
    /\ (Answering("LOAD_MODULE") /\ response.success) =>
          /\ active_module_ > Len(atRecv.modules)
          /\ modules[active_module_].alive
          /\ modules[active_module_].kind =
                create_module(request.module_name)
          /\ modules[active_module_].setups = 1
    /\ (Answering("UNLOAD_MODULE") /\ response.success) =>
          /\ atRecv.slot # 0
          /\ active_module_ = 0
          /\ ~modules[atRecv.slot].alive
    /\ (Answering("CONFIGURE_MODULE") /\ response.success) =>
          /\ atRecv.slot # 0
          /\ active_module_ = atRecv.slot
          /\ modules[atRecv.slot].configs =
                atRecv.modules[atRecv.slot].configs + 1

\* a SEND_COLOR_COMMAND received from a client, with a module loaded and an
\* internal command waiting in the queue, is about to be answered
C17_Witness ==
    /\ Answering("SEND_COLOR_COMMAND")
    /\ atRecv.slot # 0
    /\ atRecv.queue # <<>>

\* v is the color component for axis value raw (millimetres): within
\* 0..255, 255 from +0.5 m upwards, 0 from -0.5 m downwards, and between
\* the two the linear image of raw in [0, 255], truncated
IsByteOfAxis(raw, v) ==
    /\ v \in 0..255
    /\ raw >= 500 => v = 255
    /\ raw <= -500 => v = 0
    /\ (-500 < raw /\ raw < 500) =>
          /\ v * 1000 <= (raw + 500) * 255
          /\ (raw + 500) * 255 < (v + 1) * 1000

\* C18: every component of a command update produced is the clamped linear
\* image of its axis of a green detection's position: r of x, g of y, b of
\* z; and a larger axis value never gives a smaller component
C18_AxisLinearClamped ==
    /\ \A i \in 1..Len(pos_commands) :
         \E n \in 1..Len(pos_frame_data) :
            /\ pos_frame_data[n].color_name = "green"
            /\ IsByteOfAxis(pos_frame_data[n].position_3d.x, pos_commands[i].r)
            /\ IsByteOfAxis(pos_frame_data[n].position_3d.y, pos_commands[i].g)
            /\ IsByteOfAxis(pos_frame_data[n].position_3d.z, pos_commands[i].b)
    /\ \A a, b \in AxisSamples :
         a <= b => AxisToByte(a) <= AxisToByte(b)

\* update was called with a green detection 2 m off on x, centred on y and
\* 2 m off the other way on z, and produced the color (255, 127, 0)
C18_Witness ==
    /\ Len(pos_frame_data) = 1
    /\ pos_frame_data[1].color_name = "green"
    /\ pos_frame_data[1].position_3d = [x |-> 2000, y |-> 0, z |-> -2000]
    /\ Len(pos_commands) = 1
    /\ pos_commands[1].r = 255
    /\ pos_commands[1].g = 127
    /\ pos_commands[1].b = 0

\* C19: update hands nothing to the callback when no detection of the
\* frame record is green; otherwise it hands over one SEND_COLOR_COMMAND,
\* however many detections are green, computed from the position of the
\* first green detection and addressed to target_ball_id_
C19_OneCommandPerUpdate ==
    /\ (\A n \in 1..Len(pos_frame_data) :
           pos_frame_data[n].color_name # "green") => pos_commands = <<>>
    /\ (\E n \in 1..Len(pos_frame_data) :
           pos_frame_data[n].color_name = "green") =>
          /\ Len(pos_commands) = 1
          /\ pos_commands[1].type = "SEND_COLOR_COMMAND"
          /\ pos_commands[1].ball_id = target_ball_id_
          /\ \E n \in 1..Len(pos_frame_data) :
               /\ pos_frame_data[n].color_name = "green"
               /\ \A k \in 1..(n - 1) : pos_frame_data[k].color_name # "green"
               /\ pos_commands[1].r = AxisToByte(pos_frame_data[n].position_3d.x)
               /\ pos_commands[1].g = AxisToByte(pos_frame_data[n].position_3d.y)
               /\ pos_commands[1].b = AxisToByte(pos_frame_data[n].position_3d.z)

\* update was called on a module configured for ball 202 with two green
\* detections at different positions, and handed over one command
C19_Witness ==
    /\ target_ball_id_ = "202"
    /\ Len(pos_frame_data) = 2
    /\ pos_frame_data[1].color_name = "green"
    /\ pos_frame_data[2].color_name = "green"
    /\ pos_frame_data[1].position_3d # pos_frame_data[2].position_3d
    /\ Len(pos_commands) = 1

\* target identities that reach every ball: the word "all" and the
\* broadcast octet of the balls' subnet
BroadcastTargets == {"all", "255"}

\* C20 as stated: a module no target was configured on addresses its
\* commands to the broadcast target
C20_DefaultTargetIsBroadcast ==
    ~pos_configured =>
        \A i \in 1..Len(pos_commands) :
            pos_commands[i].ball_id \in BroadcastTargets

\* C20: a module no target was configured on addresses its commands to
\* ball "201"
C20_DefaultTargetIsBall201 ==
    ~pos_configured =>
        /\ target_ball_id_ = "201"
        /\ \A i \in 1..Len(pos_commands) : pos_commands[i].ball_id = "201"

\* update on a module that no target was configured on found a green
\* detection and handed over a command
C20_Witness ==
    /\ ~pos_configured
    /\ Len(pos_commands) = 1

\* C21: after a processCommand call target_ball_id_ is the value of the
\* target_ball_id key when the command is a CONFIGURE_MODULE that has the
\* key, and what it was before the call otherwise; update leaves it alone,
\* so the relation still holds while and after update runs, and every
\* command update hands over carries that target
C21_ConfigureSetsTarget ==
    /\ pos_processed = NoProcessed => target_ball_id_ = "201"
    /\ pos_processed # NoProcessed =>
          LET c == pos_processed.command IN
          IF /\ c.type = "CONFIGURE_MODULE"
             /\ "target_ball_id" \in DOMAIN c.module_args
          THEN target_ball_id_ = c.module_args.target_ball_id
          ELSE target_ball_id_ = pos_processed.target_before
    /\ \A i \in 1..Len(pos_commands) :
          pos_commands[i].ball_id = target_ball_id_

\* the target was configured to "202", then a CONFIGURE_MODULE without the
\* key was processed, and a later update handed over a command
C21_Witness ==
    /\ pos_processed.command.type = "CONFIGURE_MODULE"
    /\ "target_ball_id" \notin DOMAIN pos_processed.command.module_args
    /\ pos_processed.target_before = "202"
    /\ Len(pos_commands) = 1
    /\ pos_commands[1].ball_id = "202"

\* C22: for a SEND_COLOR_COMMAND with target T and color (R, G, B)
\* processCommand sends one datagram, to the address made of the subnet
\* prefix and T, carrying the 12 bytes 66, 0,0,0,0, 0, 0,0, 0x0A and R, G,
\* B modulo 256
C22_OneColorDatagram ==
    (udp_call.op = "processCommand"
        /\ udp_call.command.type = "SEND_COLOR_COMMAND") =>
        /\ Len(udp_datagrams) = 1
        /\ udp_datagrams[1].addr = "10.54.136." \o udp_call.command.ball_id
        /\ udp_datagrams[1].data =
              <<66, 0, 0, 0, 0, 0, 0, 0, 10,
                udp_call.command.color.r % 256,
                udp_call.command.color.g % 256,
                udp_call.command.color.b % 256>>

\* C23: update of the relay module sends no datagram and does not sleep,
\* whatever the frame record holds
C23_RelayUpdateDoesNothing ==
    udp_call.op = "update" =>
        /\ udp_datagrams = <<>>
        /\ udp_slept = 0

\* two points are the same point
SamePoint(p, q) == p.x * q.d = q.x * p.d /\ p.y * q.d = q.y * p.d

\* two lists hold the same set of points
SamePoints(ps, qs) ==
    /\ \A i \in 1..Len(ps) : \E j \in 1..Len(qs) : SamePoint(ps[i], qs[j])
    /\ \A j \in 1..Len(qs) : \E i \in 1..Len(ps) : SamePoint(ps[i], qs[j])

\* C24: the merge pass applied to its own output returns the same set of
\* points, and as many of them
C24_MergeIdempotent ==
    merge_pc = "again" =>
        /\ Len(merge_again) = Len(merge_merged)
        /\ SamePoints(merge_again, merge_merged)

\* the indices a set of indices reaches over links between centers that
\* are near each other
RECURSIVE Linked(_, _)
Linked(centers, S) ==
    LET T == S \cup {j \in 1..Len(centers) :
                        \E i \in S : IsNear(centers[i], centers[j])}
    IN IF T = S THEN S ELSE Linked(centers, T)

\* the connected components of the graph of near centers
Components(centers) == {Linked(centers, {i}) : i \in 1..Len(centers)}

\* the arithmetic mean of the centers at a set of indices
MeanOf(centers, S) ==
    LET RECURSIVE AsSeq(_)
        AsSeq(R) == IF R = {} THEN <<>>
                    ELSE LET m == CHOOSE e \in R : \A o \in R : e <= o
                         IN <<m>> \o AsSeq(R \ {m})
    IN Centroid(centers, AsSeq(S))

\* C25: whatever the order of the input, the merge pass returns one point
\* for each connected component of the centers linked when nearer than the
\* threshold, and that point is the mean of the component's members
C25_MergeIsSingleLinkage ==
    merge_pc # "idle" =>
        /\ Len(merge_merged) = Cardinality(Components(merge_centers))
        /\ \A S \in Components(merge_centers) :
              \E k \in 1..Len(merge_merged) :
                 SamePoint(merge_merged[k], MeanOf(merge_centers, S))

\* the pixels of the 5x5 patch around (x, y) that lie in the frame and
\* hold a strictly positive reading
ValidPatch(x, y) ==
    {p \in Pixels : /\ p[1] >= x - 2 /\ p[1] <= x + 2
                    /\ p[2] >= y - 2 /\ p[2] <= y + 2
                    /\ depth_frame[p] > 0}

\* the sum of the readings at a set of pixels
RECURSIVE ReadingSum(_)
ReadingSum(S) ==
    IF S = {} THEN 0
    ELSE LET p == CHOOSE q \in S : TRUE
         IN depth_frame[p] + ReadingSum(S \ {p})

\* C26: the averaged depth is the mean of the strictly positive readings
\* of the patch clipped to the frame, so it is no smaller than the least
\* of them, and it is 0 when the patch has none
C26_DepthAverageOfValid ==
    depth_op = "getAveragedDepth" =>
        LET valid == ValidPatch(depth_args.x, depth_args.y) IN
        IF valid = {}
        THEN depth_result = [total |-> 0, count |-> 1]
        ELSE /\ depth_result.count = Cardinality(valid)
             /\ depth_result.total = ReadingSum(valid)
             /\ \E p \in valid :
                   depth_result.total >= depth_frame[p] * depth_result.count

\* the patch around pixel (0, 0) holds zero readings and the two readings
\* 2 m and 4 m, and the averaged depth is 3 m
C26_Witness ==
    /\ depth_op = "getAveragedDepth"
    /\ depth_args = [x |-> 0, y |-> 0]
    /\ depth_frame[<<0, 0>>] = 0
    /\ depth_result = [total |-> 6000, count |-> 2]

\* a merged center is kept when its patch has a valid reading and their
\* mean does not exceed the 3.0 m range
WithinRange(center) ==
    LET valid == ValidPatch(center.x \div center.d, center.y \div center.d)
    IN valid # {} /\ ReadingSum(valid) <= 3000 * Cardinality(valid)

\* C27: detectBalls drops a merged center exactly when its patch has no
\* valid reading or its averaged depth exceeds 3.0 m, and returns one
\* detection for every other center, in order, with confidence 1.0, held
\* flag false, the color name as label and the identity made of the color
\* name and the timestamp
C27_DetectionPerAcceptedCenter ==
    depth_op = "detectBalls" =>
        LET kept == SelectSeq(depth_args.centers, WithinRange) IN
        /\ Len(depth_result) = Len(kept)
        /\ \A k \in 1..Len(depth_result) :
              /\ k <= Len(kept) => depth_result[k].center = kept[k]
              /\ depth_result[k].confidence = 1
              /\ depth_result[k].is_held = FALSE
              /\ depth_result[k].color_name = depth_args.color
              /\ depth_result[k].id =
                    depth_args.color \o "_" \o ToString(depth_args.timestamp_us)

\* a profile's second interval is enabled
SecondEnabled(color) == color.min_hsv2[1] >= 0

\* C28: after loadSettings has read a document written by saveSettings,
\* every profile has exactly the first interval of the document and its
\* second interval is enabled if and only if the document has one for the
\* profile, in which case it is the document's, whatever the profiles
\* were before the load
C28_SettingsRoundTrip ==
    (set_op.op = "loadSettings" /\ settings_file.saved) =>
        \A i \in 1..Len(colors_) :
            /\ colors_[i].name \in DOMAIN settings_file.profiles
            /\ LET color == colors_[i]
                   color_data == settings_file.profiles[colors_[i].name]
               IN /\ color.min_hsv = color_data.min_hsv
                  /\ color.max_hsv = color_data.max_hsv
                  /\ SecondEnabled(color) <=> "min_hsv2" \in DOMAIN color_data
                  /\ "min_hsv2" \in DOMAIN color_data =>
                        /\ color.min_hsv2 = color_data.min_hsv2
                        /\ color.max_hsv2 = color_data.max_hsv2

\* the file is a document in which the entry of some profile lacks an
\* interval bound
MalformedDocument(file) ==
    \/ file.kind = "unparsable"
    \/ /\ file.kind = "json"
       /\ \E n \in DOMAIN file.profiles :
             \/ ~({"min_hsv", "max_hsv"} \subseteq DOMAIN file.profiles[n])
             \/ /\ "min_hsv2" \in DOMAIN file.profiles[n]
                /\ "max_hsv2" \notin DOMAIN file.profiles[n]

\* C29: when the settings file is missing or malformed, loadSettings
\* returns false and every profile keeps the intervals it had before the
\* call; when it succeeds, a profile whose name is not in the document
\* keeps its intervals
C29_LoadAllOrNothing ==
    set_op.op = "loadSettings" =>
        /\ (settings_file.kind = "missing" \/ MalformedDocument(settings_file))
              => (set_op.result = FALSE /\ colors_ = set_op.before)
        /\ set_op.result = TRUE =>
              \A i \in 1..Len(colors_) :
                  colors_[i].name \notin DOMAIN settings_file.profiles
                      => colors_[i] = set_op.before[i]

\* the profile whose hue lies at the top of the hue range
WrapProne == "pink"

\* C30: calibration gives the profile two intervals covering the hue
\* wrap-around, one ending at the top of the hue range and one starting
\* at 0, when the sampled mean hue is at most 15, for any profile, or at
\* least 170 for the wrap-prone profile; otherwise it gives it the single
\* interval mean -/+ (8, 40, 40) clamped to the channel ranges and
\* disables the second interval
C30_CalibrationShape ==
    (set_op.op = "calibrateColor"
        /\ FindColor(set_op.before, set_op.color_name) # 0) =>
        LET color == colors_[FindColor(colors_, set_op.color_name)]
            mean == set_op.mean
        IN IF mean[1] <= 15
              \/ (set_op.color_name = WrapProne /\ mean[1] >= 170)
           THEN /\ SecondEnabled(color)
                /\ color.max_hsv[1] = 180 \/ color.max_hsv2[1] = 180
                /\ color.min_hsv[1] = 0 \/ color.min_hsv2[1] = 0
           ELSE /\ color.min_hsv = Scalar(Max(0, mean[1] - 8),
                                          Max(0, mean[2] - 40),
                                          Max(0, mean[3] - 40))
                /\ color.max_hsv = Scalar(Min(180, mean[1] + 8),
                                          Min(255, mean[2] + 40),
                                          Min(255, mean[3] + 40))
                /\ color.min_hsv2 = Disabled
                /\ color.max_hsv2 = Disabled

\* min <= max in the three channels
WellOrdered(min, max) == \A k \in 1..3 : min[k] <= max[k]

\* all three channels negative
AllNegative(scalar) == \A k \in 1..3 : scalar[k] < 0

\* C31: after construction and any calls of calibrateColor, loadSettings
\* and resetToDefaults, the first interval of every profile has min <= max
\* in all three channels, and its second interval is either the disabled
\* sentinel, all channels of min and of max negative, or an interval with
\* min <= max in all three channels
C31_ProfileIntervalsWellFormed ==
    \A i \in 1..Len(colors_) :
        /\ WellOrdered(colors_[i].min_hsv, colors_[i].max_hsv)
        /\ \/ /\ AllNegative(colors_[i].min_hsv2)
              /\ AllNegative(colors_[i].max_hsv2)
           \/ /\ ~AllNegative(colors_[i].min_hsv2)
              /\ ~AllNegative(colors_[i].max_hsv2)
              /\ WellOrdered(colors_[i].min_hsv2, colors_[i].max_hsv2)

\* C32: over successive update calls the frame index DNNTracker::update
\* hands to the identity-assignment collaborator is strictly increasing
C32_FrameIndexIncreases ==
    \A i \in 1..Len(byte_tracker) : \A k \in 1..Len(byte_tracker) :
        i < k => byte_tracker[i].frame_id < byte_tracker[k].frame_id

\* the classical path keeps the center of a track: detectBalls returns a
\* detection for it
ClassicalKeeps(track) ==
    Len(DetectCentersOf(depth_frame, "pink",
            <<FuseTrack(depth_frame, track).center>>, 1, 0)) = 1

\* C33: the neural path fuses depth as the classical path does: the frame
\* record gets a ball for exactly the tracks whose center the classical
\* path keeps (a valid sample in the 5x5 patch and a mean within 3.0 m),
\* and the depth of each ball is the mean of the strictly positive samples
\* of the patch
C33_NeuralDepthAsClassical ==
    depth_op = "fuseTracks" =>
        LET kept == SelectSeq(depth_args.tracks, ClassicalKeeps) IN
        /\ Len(depth_result) = Len(kept)
        /\ \A k \in 1..Len(depth_result) :
              k <= Len(kept) =>
                 LET center == depth_result[k].center
                     mean == getAveragedDepth(depth_frame,
                                 center.x \div center.d,
                                 center.y \div center.d, 5)
                 IN /\ depth_result[k].track_id = kept[k].track_id
                    /\ depth_result[k].depth_m * mean.count
                          = mean.total * 1000

\* C34: an iteration of the command loop makes one non-blocking check of
\* the external channel and then one pop of the internal queue, whether
\* or not the check yielded a request, so it handles at most one request
\* and at most one internal command; it sleeps if and only if neither
\* yielded work
C34_OneCheckOfEachChannel ==
    [][/\ received' # received =>
            /\ pcC = "c_recv" /\ pcC' = "c_handle"
            /\ received' = received + 1
       /\ (pcC' = "c_recv" /\ pcC # "c_recv") => pcC = "c_loop"
       /\ (pcC = "c_recv" /\ pcC' # "c_recv") =>
            pcC' = (IF result' THEN "c_handle" ELSE "c_lock")
       /\ (pcC \in {"c_handle", "c_setup", "c_reset", "c_reply"}
              /\ pcC' # pcC) =>
            pcC' \in {"c_setup", "c_reset", "c_reply", "c_lock"}
       /\ Len(command_queue_') < Len(command_queue_) =>
            /\ pcC = "c_pop"
            /\ Len(command_queue_') = Len(command_queue_) - 1
       /\ (pcC' = "c_pop" /\ pcC # "c_pop") => pcC = "c_lock"
       /\ (pcC = "c_pop" /\ pcC' # "c_pop") =>
            /\ pcC' = "c_sleep" <=> (~result' /\ ~command_found')
            /\ pcC' = "c_dispatch" <=> command_found'
            /\ pcC' \in {"c_sleep", "c_dispatch", "c_loop"}
       /\ (pcC' = "c_sleep" /\ pcC # "c_sleep") => pcC = "c_pop"
       /\ (pcC' = "c_loop" /\ pcC # "c_loop") =>
            pcC \in {"c_idle", "c_pop", "c_dispatch", "c_sleep"}
      ]_vars

\* an iteration that handled an external request also popped an internal
\* command and is about to dispatch it
C34_Witness ==
    /\ pcC = "c_dispatch"
    /\ result
    /\ command_found

\* C35: the content of the active-module slot changes only in a step of
\* the command loop that is processing a LOAD_MODULE or an UNLOAD_MODULE
\* request; steps of the frame loop, of update and its callback, the
\* handling of CONFIGURE_MODULE and of unknown kinds, and the dispatch of
\* internal commands leave it as it is
C35_SlotWrittenOnlyByLoadUnload ==
    [][active_module_' # active_module_ =>
          /\ pcC \in {"c_handle", "c_reset"}
          /\ pcC' # pcC
          /\ request.type \in {"LOAD_MODULE", "UNLOAD_MODULE"}
          /\ pcF' = pcF
      ]_vars

\* the command loop has replaced the instance in the slot while it
\* processes a LOAD_MODULE, and the frame loop is inside an iteration
C35_Witness ==
    /\ pcC = "c_setup"
    /\ request.type = "LOAD_MODULE"
    /\ atRecv.slot # 0
    /\ active_module_ # atRecv.slot
    /\ pcF \in {"f_slot", "f_call", "f_update", "f_lock", "f_push",
                "f_publish"}

\* C36: processCommand with a command kind the variant does not recognize
\* does nothing: the relay module given anything but a SEND_COLOR_COMMAND
\* sends no datagram, and the position-to-color module given anything but
\* a CONFIGURE_MODULE keeps its target identity
C36_UnrecognizedKindIsNoOp ==
    /\ (udp_call.op = "processCommand"
           /\ udp_call.command.type # "SEND_COLOR_COMMAND")
          => (udp_datagrams = <<>> /\ udp_slept = 0)
    /\ (pos_processed # NoProcessed
           /\ pos_processed.command.type # "CONFIGURE_MODULE")
          => target_ball_id_ = pos_processed.target_before

\* the relay module was given a CONFIGURE_MODULE, and the position-to-color
\* module, configured to "255", a SEND_COLOR_COMMAND naming "202"
C36_Witness ==
    /\ udp_call.op = "processCommand"
    /\ udp_call.command.type = "CONFIGURE_MODULE"
    /\ pos_processed.command.type = "SEND_COLOR_COMMAND"
    /\ pos_processed.command.module_args.target_ball_id = "202"
    /\ pos_processed.target_before = "255"

\* C37: after calibrateColor on a known profile from a patch of mean
\* (h, s, v), a pixel of exactly that color is inside the union of the
\* profile's enabled intervals, so it passes the profile's threshold
C37_CalibratedColorPassesMask ==
    (set_op.op = "calibrateColor"
        /\ FindColor(set_op.before, set_op.color_name) # 0) =>
        Mask(set_op.mean, colors_[FindColor(colors_, set_op.color_name)])

\* pink was calibrated on a patch of hue 175 and has two intervals, the
\* first of which holds the patch's color
C37_Witness ==
    /\ set_op.op = "calibrateColor"
    /\ set_op.color_name = "pink"
    /\ set_op.mean = Scalar(175, 40, 215)
    /\ colors_[1].min_hsv2[1] = 0
    /\ InRange(set_op.mean, colors_[1].min_hsv, colors_[1].max_hsv)

\* C38: whenever the frame loop enters update on an instance, the setup
\* call the command loop made on that instance has already returned
C38_UpdateAfterSetup ==
    [][(pcF = "f_call" /\ pcF' = "f_update") =>
          modules[upd'].setups >= 1]_vars

\* C39: the command-queue lock is held by the frame loop only while it
\* pushes and by the command loop only while it pops: it is free while
\* the command loop handles a request or dispatches a popped command, so
\* whichever loop waits for the lock, the other one is at its push or
\* pop and not waiting
C39_LockHeldOnlyForPushOrPop ==
    /\ command_queue_mutex_ = "cmd" <=> pcC = "c_pop"
    /\ command_queue_mutex_ = "frame" <=> pcF = "f_push"
    /\ pcC \in {"c_handle", "c_setup", "c_reset", "c_reply", "c_dispatch"}
          => command_queue_mutex_ # "cmd"
    /\ (pcF = "f_lock" /\ pcC = "c_lock") => command_queue_mutex_ = "free"

\* the frame loop holds the lock for a push while the command loop is
\* dispatching the command it popped earlier
C39_Witness ==
    /\ pcC = "c_dispatch"
    /\ pcF = "f_push"
    /\ command_queue_mutex_ = "frame"

\* the sum of the sizes of the clusters
RECURSIVE SizeSum(_)
SizeSum(clusters) ==
    IF clusters = <<>> THEN 0
    ELSE Len(Head(clusters)) + SizeSum(Tail(clusters))

\* C40: the merge pass partitions its input: every input center is in
\* exactly one cluster, the cluster sizes add up to the input size, each
\* output point is the centroid of one cluster, a non-empty input gives
\* at least one and at most as many points as it has, an empty input
\* gives an empty output, and an input whose centers are pairwise at
\* least 80 px apart is returned unchanged
C40_MergePartitionsInput ==
    merge_pc \in {"merged", "again"} =>
        LET clusters == ClustersFrom(merge_centers, 1, {})
            n == Len(merge_centers)
        IN /\ \A i \in 1..n :
                 Cardinality({<<k, m>> \in
                                 (1..Len(clusters)) \X (1..n) :
                                   /\ m <= Len(clusters[k])
                                   /\ clusters[k][m] = i}) = 1
           /\ SizeSum(clusters) = n
           /\ Len(merge_merged) = Len(clusters)
           /\ \A k \in 1..Len(clusters) :
                 merge_merged[k] = Centroid(merge_centers, clusters[k])
           /\ n > 0 => (Len(merge_merged) >= 1 /\ Len(merge_merged) <= n)
           /\ n = 0 => merge_merged = <<>>
           /\ (\A i \in 1..n : \A k \in 1..n :
                  i # k => ~IsNear(merge_centers[i], merge_centers[k]))
                 => /\ Len(merge_merged) = n
                    /\ \A i \in 1..n :
                          SamePoint(merge_merged[i], merge_centers[i])

\* three centers were merged into two points: two of them formed one
\* cluster although another center stands between them in the input
C40_Witness ==
    /\ merge_pc = "merged"
    /\ Len(merge_centers) = 3
    /\ IsNear(merge_centers[1], merge_centers[3])
    /\ ~IsNear(merge_centers[1], merge_centers[2])
    /\ ~IsNear(merge_centers[2], merge_centers[3])
    /\ Len(merge_merged) = 2

=============================================================================
